---- MODULE Spec2Model ----
(***************************************************************************)
(* Paper-trading portfolio and decision engine of the BSC arbitrage bot:   *)
(* Position / Portfolio / PortfolioManager (portfolio_tracker.py),         *)
(* AITradingAgent (ai_trading_agent.py) and the polling loops of           *)
(* ContinuousAITrader (continuous_ai_trader.py).                           *)
(*                                                                         *)
(* Numbers.  The code computes in floating point; the model computes in    *)
(* fixed point on integers.  Money is counted in units of 1e-4 USD, so     *)
(* 1000.0 USD is 10000000.  A token quantity is counted in lots and a      *)
(* price is money units per lot, so value = quantity * price is exact.     *)
(* The seeded positions use the lot that costs 100 units (one cent) at     *)
(* the entry price: their entry_price is 100, their quantity is the cost   *)
(* in cents and their current price is in percent of the entry price.      *)
(* pnl_percent is kept to the whole percent (floor); divisions of the      *)
(* position sizing floor as well.  Times are whole hours.                  *)
(***************************************************************************)
EXTENDS Integers, Sequences, FiniteSets, TLC

\* ------------------------------------------------------------------ bounds

\* Longest trade history the harness builds.
MaxTrades == 3
\* Most decisions the harness keeps pending between decision and execution.
MaxPending == 2
\* Cycles the market-scan loop and the position-check loop run.
MaxScans == 1
MaxChecks == 2
\* Tokens of one market scan that the analysis does not reject.
MaxOffers == 3

\* --------------------------------------------------------------- constants

USD == 100 * 100
StartingBalance == 1000 * USD
MinCapitalReserve == 500 * USD
MinPositionCapital == 50 * USD
MaxPositions == 5
MinConfidence == 65
StopLossPct == 15
SellConfidence == 90

\* Token addresses; 1, 2, 3 are the seeded tokens.
Addr == 1..8
NoPosition == [token_address |-> 0]
NoDecision == [action |-> "none"]

\* take_profit_targets
TakeProfitTarget(strategy) ==
  CASE strategy = "scalping" -> 25
    [] strategy = "swing" -> 50
    [] strategy = "position" -> 100
    [] OTHER -> 50

\* ---------------------------------------------------------------- Position

\* Position(...) with the entry time of the first position ever opened.
NewPositionAtFirstEntry(address, entry_price, current_price, quantity, entry_time) ==
  [token_address |-> address, entry_price |-> entry_price,
   current_price |-> current_price, quantity |-> quantity,
   entry_time |-> 0, position_value_usd |-> 0,
   pnl_usd |-> 0, pnl_percent |-> 0]

\* Position(...): the dataclass constructor; the derived fields default to 0.
NewPosition(address, entry_price, current_price, quantity, entry_time) ==
  [token_address |-> address, entry_price |-> entry_price,
   current_price |-> current_price, quantity |-> quantity,
   entry_time |-> entry_time, position_value_usd |-> 0,
   pnl_usd |-> 0, pnl_percent |-> 0]

\* update_price with the P&L taken against the price before the call.
UpdatePriceFromLastPrice(pos, new_price) ==
  LET value == pos.quantity * new_price
      cost_basis == pos.quantity * pos.entry_price
      pnl == value - pos.quantity * pos.current_price
  IN [pos EXCEPT !.current_price = new_price,
                 !.position_value_usd = value,
                 !.pnl_usd = pnl,
                 !.pnl_percent = IF cost_basis > 0
                                 THEN (pnl * 100) \div cost_basis ELSE 0]

\* update_price taking the new price as the entry price as well.
UpdatePriceRebasesEntry(pos, new_price) ==
  [pos EXCEPT !.current_price = new_price,
              !.entry_price = new_price,
              !.position_value_usd = pos.quantity * new_price,
              !.pnl_usd = 0,
              !.pnl_percent = 0]

\* Position.update_price
UpdatePrice(pos, new_price) ==
  LET value == pos.quantity * new_price
      cost_basis == pos.quantity * pos.entry_price
      pnl == value - cost_basis
  IN [pos EXCEPT !.current_price = new_price,
                 !.position_value_usd = value,
                 !.pnl_usd = pnl,
                 !.pnl_percent = IF cost_basis > 0
                                 THEN (pnl * 100) \div cost_basis ELSE 0]

\* --------------------------------------------------------------- Portfolio

Trade(timestamp, action, address, price, quantity, value_usd, reason) ==
  [timestamp |-> timestamp, action |-> action, token_address |-> address,
   price |-> price, quantity |-> quantity, value_usd |-> value_usd,
   reason |-> reason]

\* Portfolio(starting_balance, current_balance): the dataclass defaults.
NewPortfolio(starting_balance) ==
  [starting_balance |-> starting_balance,
   current_balance |-> starting_balance,
   positions |-> [a \in Addr |-> NoPosition],
   trade_history |-> << >>,
   total_realized_pnl |-> 0, total_unrealized_pnl |-> 0,
   win_count |-> 0, loss_count |-> 0]

\* The keys of Portfolio.positions.
OpenAddrs(pf) == {a \in Addr : pf.positions[a] # NoPosition}

RECURSIVE SumOver(_, _)
\* sum(f[a] for a in S)
SumOver(f, S) ==
  IF S = {} THEN 0
  ELSE LET a == CHOOSE x \in S : TRUE IN f[a] + SumOver(f, S \ {a})

\* add_position putting the trade at the head of the history.
AddPositionPrepends(pf, position) ==
  [pf EXCEPT
     !.positions[position.token_address] = position,
     !.current_balance = @ - position.quantity * position.entry_price,
     !.trade_history =
        <<Trade(position.entry_time, "buy", position.token_address,
                position.entry_price, position.quantity,
                position.quantity * position.entry_price,
                "Initial position")>> \o @]

\* Portfolio.add_position
AddPosition(pf, position) ==
  [pf EXCEPT
     !.positions[position.token_address] = position,
     !.current_balance = @ - position.quantity * position.entry_price,
     !.trade_history =
        Append(@, Trade(position.entry_time, "buy", position.token_address,
                        position.entry_price, position.quantity,
                        position.quantity * position.entry_price,
                        "Initial position"))]

\* Portfolio.close_position: the value it returns.
ClosePositionOk(pf, address) == address \in OpenAddrs(pf)

\* close_position without the del self.positions[token_address].
ClosePositionKeepsPosition(pf, address, sell_price, reason, utcnow) ==
  IF ~ClosePositionOk(pf, address) THEN pf
  ELSE LET position == UpdatePrice(pf.positions[address], sell_price)
       IN [pf EXCEPT
             !.current_balance = @ + position.position_value_usd,
             !.total_realized_pnl = @ + position.pnl_usd,
             !.win_count = IF position.pnl_usd > 0 THEN @ + 1 ELSE @,
             !.loss_count = IF position.pnl_usd > 0 THEN @ ELSE @ + 1,
             !.trade_history =
                Append(@, Trade(utcnow, "sell", position.token_address,
                                sell_price, position.quantity,
                                position.position_value_usd, reason)),
             !.positions[address] = position]

\* close_position counting a loss only when pnl_usd is below zero.
ClosePositionBreakEvenUncounted(pf, address, sell_price, reason, utcnow) ==
  IF ~ClosePositionOk(pf, address) THEN pf
  ELSE LET position == UpdatePrice(pf.positions[address], sell_price)
       IN [pf EXCEPT
             !.current_balance = @ + position.position_value_usd,
             !.total_realized_pnl = @ + position.pnl_usd,
             !.win_count = IF position.pnl_usd > 0 THEN @ + 1 ELSE @,
             !.loss_count = IF position.pnl_usd < 0 THEN @ + 1 ELSE @,
             !.trade_history =
                Append(@, Trade(utcnow, "sell", position.token_address,
                                sell_price, position.quantity,
                                position.position_value_usd, reason)),
             !.positions[address] = NoPosition]

\* Portfolio.close_position: the portfolio it leaves.
ClosePosition(pf, address, sell_price, reason, utcnow) ==
  IF ~ClosePositionOk(pf, address) THEN pf
  ELSE LET position == UpdatePrice(pf.positions[address], sell_price)
       IN [pf EXCEPT
             !.current_balance = @ + position.position_value_usd,
             !.total_realized_pnl = @ + position.pnl_usd,
             !.win_count = IF position.pnl_usd > 0 THEN @ + 1 ELSE @,
             !.loss_count = IF position.pnl_usd > 0 THEN @ ELSE @ + 1,
             !.trade_history =
                Append(@, Trade(utcnow, "sell", position.token_address,
                                sell_price, position.quantity,
                                position.position_value_usd, reason)),
             !.positions[address] = NoPosition]

\* Portfolio.update_all_prices; price_updates is a function on the addresses
\* it names.
UpdateAllPrices(pf, price_updates) ==
  LET named == OpenAddrs(pf) \cap DOMAIN price_updates
      updated == [a \in Addr |->
                    IF a \in named
                    THEN UpdatePrice(pf.positions[a], price_updates[a])
                    ELSE pf.positions[a]]
  IN [pf EXCEPT
        !.positions = updated,
        !.total_unrealized_pnl =
           SumOver([a \in Addr |-> IF a \in named THEN updated[a].pnl_usd
                                   ELSE 0], named)]

\* Portfolio.get_total_value
GetTotalValue(pf) ==
  pf.current_balance
    + SumOver([a \in Addr |-> IF a \in OpenAddrs(pf)
                             THEN pf.positions[a].position_value_usd ELSE 0],
              OpenAddrs(pf))

\* Portfolio.get_total_pnl
GetTotalPnl(pf) == pf.total_realized_pnl + pf.total_unrealized_pnl

\* ------------------------------------------------------------ AITradingAgent

\* AgentState(): the dataclass defaults.
NewAgentState ==
  [total_trades |-> 0, successful_trades |-> 0, failed_trades |-> 0,
   total_profit |-> 0, current_strategy_preference |-> "swing"]

\* AITradingAgent.get_available_capital
GetAvailableCapital(pf) ==
  LET total_value == GetTotalValue(pf)
  IN IF total_value - MinCapitalReserve > 0
     THEN total_value - MinCapitalReserve ELSE 0

\* can_open_position with <= max_positions.
CanOpenPositionUpTo(pf) ==
  /\ Cardinality(OpenAddrs(pf)) <= MaxPositions
  /\ GetAvailableCapital(pf) > MinPositionCapital

\* AITradingAgent.can_open_position
CanOpenPosition(pf) ==
  /\ Cardinality(OpenAddrs(pf)) < MaxPositions
  /\ GetAvailableCapital(pf) > MinPositionCapital

\* AITradingAgent.calculate_position_size; position_pct is in percent.
CalculatePositionSize(pf, token_price, confidence) ==
  LET available == GetAvailableCapital(pf)
      position_pct == 10 + (10 * (confidence - 50)) \div 50
      position_value == (available * position_pct) \div 100
  IN IF token_price > 0 THEN position_value \div token_price ELSE 0

\* AITradingAgent._select_strategy; the analysis carries the mean volatility
\* of its timeframes.
SelectStrategy(analysis) ==
  IF analysis.avg_volatility > 15 THEN "scalping"
  ELSE IF analysis.overall_trend = "strong_bullish"
          /\ analysis.risk_reward_ratio > 2 THEN "position"
  ELSE "swing"

TradingDecision(action, token, reason, confidence, suggested_amount, strategy) ==
  [action |-> action, address |-> token.address, price_usd |-> token.price_usd,
   reason |-> reason, confidence |-> confidence,
   suggested_amount |-> suggested_amount, strategy |-> strategy]

\* AITradingAgent._analyze_existing_position: the portfolio it leaves (the
\* position's price is updated in place).
ExistingPositionPf(pf, token) ==
  IF token.address \notin OpenAddrs(pf) THEN pf
  ELSE [pf EXCEPT !.positions[token.address] = UpdatePrice(@, token.price_usd)]

\* The exit rules with the trend reversal tested before the take profit.
ExitReasonTrendFirst(position, st, analysis, utcnow) ==
  LET hours_held == utcnow - position.entry_time
  IN IF position.pnl_percent <= -StopLossPct THEN "stop_loss"
     ELSE IF analysis.overall_trend \in {"bearish", "strong_bearish"}
             /\ position.pnl_percent > 10
       THEN "trend_reversal"
     ELSE IF position.pnl_percent
               >= TakeProfitTarget(st.current_strategy_preference)
       THEN "take_profit"
     ELSE IF st.current_strategy_preference = "scalping"
             /\ hours_held > 4 /\ position.pnl_percent > 5
       THEN "scalping_time_limit"
     ELSE "none"

\* AITradingAgent._analyze_existing_position: the exit rule that fires, in
\* the order of the if/elif chain.
ExitReason(position, st, analysis, utcnow) ==
  LET hours_held == utcnow - position.entry_time
  IN IF position.pnl_percent <= -StopLossPct THEN "stop_loss"
     ELSE IF position.pnl_percent
               >= TakeProfitTarget(st.current_strategy_preference)
       THEN "take_profit"
     ELSE IF analysis.overall_trend \in {"bearish", "strong_bearish"}
             /\ position.pnl_percent > 10
       THEN "trend_reversal"
     ELSE IF st.current_strategy_preference = "scalping"
             /\ hours_held > 4 /\ position.pnl_percent > 5
       THEN "scalping_time_limit"
     ELSE "none"

\* AITradingAgent._analyze_existing_position: the decision it returns.
ExistingPositionDecision(pf, st, token, analysis, utcnow) ==
  IF token.address \notin OpenAddrs(pf) THEN NoDecision
  ELSE LET position == ExistingPositionPf(pf, token).positions[token.address]
           reason == ExitReason(position, st, analysis, utcnow)
       IN IF reason # "none"
          THEN TradingDecision("sell", token, reason, SellConfidence,
                               position.quantity,
                               st.current_strategy_preference)
          ELSE NoDecision

\* analyze_token_opportunity rejecting confidence_level <= min_confidence.
TokenOpportunityDecisionAboveMin(pf, st, token, analysis, utcnow) ==
  IF token.address \in OpenAddrs(pf)
  THEN ExistingPositionDecision(pf, st, token, analysis, utcnow)
  ELSE IF analysis.confidence_level <= MinConfidence THEN NoDecision
  ELSE IF analysis.entry_timing = "avoid" THEN NoDecision
  ELSE IF analysis.overall_score >= 80 /\ analysis.entry_timing = "immediate"
    THEN TradingDecision("buy", token, "high_score",
                         analysis.confidence_level,
                         CalculatePositionSize(pf, token.price_usd,
                                               analysis.confidence_level),
                         SelectStrategy(analysis))
  ELSE NoDecision

\* AITradingAgent.analyze_token_opportunity: the decision it returns.
TokenOpportunityDecision(pf, st, token, analysis, utcnow) ==
  IF token.address \in OpenAddrs(pf)
  THEN ExistingPositionDecision(pf, st, token, analysis, utcnow)
  ELSE IF analysis.confidence_level < MinConfidence THEN NoDecision
  ELSE IF analysis.entry_timing = "avoid" THEN NoDecision
  ELSE IF analysis.overall_score >= 80 /\ analysis.entry_timing = "immediate"
    THEN TradingDecision("buy", token, "high_score",
                         analysis.confidence_level,
                         CalculatePositionSize(pf, token.price_usd,
                                               analysis.confidence_level),
                         SelectStrategy(analysis))
  ELSE NoDecision

\* AITradingAgent.analyze_token_opportunity: the watchlist it leaves.
TokenOpportunityWatchlist(pf, wl, token, analysis) ==
  IF /\ token.address \notin OpenAddrs(pf)
     /\ analysis.confidence_level >= MinConfidence
     /\ analysis.entry_timing # "avoid"
     /\ ~(analysis.overall_score >= 80 /\ analysis.entry_timing = "immediate")
     /\ analysis.overall_score >= 70 /\ analysis.entry_timing = "wait_dip"
     /\ token.address \notin {wl[i] : i \in DOMAIN wl}
  THEN Append(wl, token.address) ELSE wl

\* AITradingAgent.execute_decision, action 'buy': the value it returns.
ExecuteBuyOk(pf, decision) ==
  /\ CanOpenPosition(pf)
  /\ ~(decision.price_usd * decision.suggested_amount > pf.current_balance)

\* AITradingAgent.execute_decision, action 'sell': the value it returns.
ExecuteSellOk(pf, decision) == ClosePositionOk(pf, decision.address)

\* AITradingAgent.execute_decision: the value it returns.
ExecuteDecisionOk(pf, decision) ==
  IF decision.action = "buy" THEN ExecuteBuyOk(pf, decision)
  ELSE ExecuteSellOk(pf, decision)

\* execute_decision adding the position before it tests the balance.
ExecuteDecisionPfAddsFirst(pf, decision, utcnow) ==
  IF decision.action = "buy"
  THEN IF CanOpenPosition(pf)
       THEN AddPosition(pf, NewPosition(decision.address, decision.price_usd,
                                        decision.price_usd,
                                        decision.suggested_amount, utcnow))
       ELSE pf
  ELSE ClosePosition(ExistingPositionPf(pf, [address |-> decision.address,
                                             price_usd |-> decision.price_usd]),
                     decision.address, decision.price_usd, decision.reason,
                     utcnow)

\* AITradingAgent.execute_decision: the portfolio it leaves.
ExecuteDecisionPf(pf, decision, utcnow) ==
  IF decision.action = "buy"
  THEN IF ExecuteBuyOk(pf, decision)
       THEN AddPosition(pf, NewPosition(decision.address, decision.price_usd,
                                        decision.price_usd,
                                        decision.suggested_amount, utcnow))
       ELSE pf
  ELSE ClosePosition(ExistingPositionPf(pf, [address |-> decision.address,
                                             price_usd |-> decision.price_usd]),
                     decision.address, decision.price_usd, decision.reason,
                     utcnow)

\* execute_decision counting a failed trade when the sell finds no position.
ExecuteDecisionStateCountsMiss(pf, st, decision) ==
  IF decision.action = "buy"
  THEN IF ExecuteBuyOk(pf, decision)
       THEN [st EXCEPT !.total_trades = @ + 1] ELSE st
  ELSE IF ~ExecuteSellOk(pf, decision)
       THEN [st EXCEPT !.failed_trades = @ + 1]
  ELSE LET pnl == UpdatePrice(pf.positions[decision.address],
                              decision.price_usd).pnl_usd
       IN [st EXCEPT
             !.successful_trades = IF pnl > 0 THEN @ + 1 ELSE @,
             !.failed_trades = IF pnl > 0 THEN @ ELSE @ + 1,
             !.total_profit = @ + pnl]

\* execute_decision keeping the strategy of an executed buy as the preference.
ExecuteDecisionStateKeepsStrategy(pf, st, decision) ==
  IF decision.action = "buy"
  THEN IF ExecuteBuyOk(pf, decision)
       THEN [st EXCEPT !.total_trades = @ + 1,
                       !.current_strategy_preference = decision.strategy]
       ELSE st
  ELSE IF ~ExecuteSellOk(pf, decision) THEN st
  ELSE LET pnl == UpdatePrice(pf.positions[decision.address],
                              decision.price_usd).pnl_usd
       IN [st EXCEPT
             !.successful_trades = IF pnl > 0 THEN @ + 1 ELSE @,
             !.failed_trades = IF pnl > 0 THEN @ ELSE @ + 1,
             !.total_profit = @ + pnl]

\* AITradingAgent.execute_decision: the agent state it leaves.
ExecuteDecisionState(pf, st, decision) ==
  IF decision.action = "buy"
  THEN IF ExecuteBuyOk(pf, decision)
       THEN [st EXCEPT !.total_trades = @ + 1] ELSE st
  ELSE IF ~ExecuteSellOk(pf, decision) THEN st
  ELSE LET pnl == UpdatePrice(pf.positions[decision.address],
                              decision.price_usd).pnl_usd
       IN [st EXCEPT
             !.successful_trades = IF pnl > 0 THEN @ + 1 ELSE @,
             !.failed_trades = IF pnl > 0 THEN @ ELSE @ + 1,
             !.total_profit = @ + pnl]

\* ------------------------------------------------------------------- state

VARIABLES
  portfolio,        \* PortfolioManager.portfolio
  state,            \* AITradingAgent.state
  watchlist,        \* AITradingAgent.watchlist
  decisions,        \* decisions returned and not yet executed
  now,              \* datetime.utcnow(): the hours passed, one per trade
  traded_strategy,  \* per address, the strategy of the buy last executed
  last,             \* the last call that trades: its name, address and result
  loops             \* ContinuousAITrader: where each loop is, cycles run

vars ==
  <<portfolio, state, watchlist, decisions, now, traded_strategy, last, loops>>

\* No loop runs: the agent and the portfolio are driven directly.
NoLoops == [market_scan |-> "none"]

Other == [op |-> "other", address |-> 0, ok |-> TRUE]

\* --------------------------------------------------- inputs of the harness

\* The token the harness trades.
TokenAddrs == {1}

\* TokenData.price_usd of a held token, in percent of 1e-2 USD per lot.
Prices == {84, 100, 126}

\* TokenData as the agent reads it: a held token, and a token on offer.
Tokens == [address : TokenAddrs, price_usd : Prices]
NewTokens == [address : TokenAddrs, price_usd : {100}]

Analysis(trend, timing, confidence, score, volatility, risk_reward) ==
  [overall_trend |-> trend, entry_timing |-> timing,
   confidence_level |-> confidence, overall_score |-> score,
   avg_volatility |-> volatility, risk_reward_ratio |-> risk_reward]

\* MultiTimeframeAnalysis as the agent reads it.  calculate_entry_timing
\* answers avoid for every trend that is not bullish.
Analyses ==
  { Analysis("bullish", "immediate", 65, 80, 10, 1),
    Analysis("strong_bullish", "immediate", 100, 80, 20, 3),
    Analysis("strong_bullish", "immediate", 60, 80, 10, 3),
    Analysis("bullish", "wait_dip", 65, 80, 10, 1),
    Analysis("neutral", "avoid", 65, 80, 10, 1),
    Analysis("bearish", "avoid", 100, 80, 20, 1) }

\* The price maps of update_all_prices: complete and partial.
PriceMaps(addrs) == UNION {[S -> Prices] : S \in SUBSET addrs}

\* ------------------------------------- the agent driven through its methods

Init ==
  /\ portfolio = NewPortfolio(StartingBalance)
  /\ state = NewAgentState
  /\ watchlist = << >>
  /\ decisions = << >>
  /\ now = 0
  /\ traded_strategy = [a \in Addr |-> "none"]
  /\ last = Other
  /\ loops = NoLoops

\* decision = await agent.analyze_token_opportunity(token)
AnalyzeToken(token, analysis) ==
  LET decision == TokenOpportunityDecision(portfolio, state, token, analysis, now)
  IN /\ portfolio' = ExistingPositionPf(portfolio, token)
     /\ watchlist' = TokenOpportunityWatchlist(portfolio, watchlist, token, analysis)
     /\ decisions' = IF decision # NoDecision /\ Len(decisions) < MaxPending
                     THEN Append(decisions, decision) ELSE decisions
     /\ last' = Other
     /\ UNCHANGED <<state, now, traded_strategy, loops>>

\* A scan analyses a token on offer.
AnalyzeNewToken(token, analysis) ==
  /\ token.address \notin OpenAddrs(portfolio)
  /\ AnalyzeToken(token, analysis)

\* A scan analyses a token the portfolio holds.
AnalyzeHeldToken(token, analysis) ==
  /\ token.address \in OpenAddrs(portfolio)
  /\ AnalyzeToken(token, analysis)

\* success = await agent.execute_decision(decisions[i])
ExecuteDecision(i) ==
  LET decision == decisions[i]
      ok == ExecuteDecisionOk(portfolio, decision)
  IN /\ Len(portfolio.trade_history) < MaxTrades
     /\ portfolio' = ExecuteDecisionPf(portfolio, decision, now)
     /\ state' = ExecuteDecisionState(portfolio, state, decision)
     /\ decisions' = [j \in 1..(Len(decisions) - 1) |->
                        IF j < i THEN decisions[j] ELSE decisions[j + 1]]
     /\ traded_strategy' =
          IF decision.action = "buy" /\ ok
          THEN [traded_strategy EXCEPT ![decision.address] = decision.strategy]
          ELSE traded_strategy
     /\ last' = [op |-> decision.action, address |-> decision.address, ok |-> ok]
     /\ now' = IF ok THEN now + 1 ELSE now
     /\ UNCHANGED <<watchlist, loops>>

\* position.update_price(new_price) on an open position
PositionUpdatePrice(address, new_price) ==
  /\ address \in OpenAddrs(portfolio)
  /\ portfolio' = [portfolio EXCEPT
                     !.positions[address] = UpdatePrice(@, new_price)]
  /\ last' = Other
  /\ UNCHANGED <<state, watchlist, decisions, now, traded_strategy, loops>>

\* portfolio.update_all_prices(price_updates)
PortfolioUpdateAllPrices(price_updates) ==
  /\ portfolio' = UpdateAllPrices(portfolio, price_updates)
  /\ last' = [op |-> "update_all_prices", address |-> 0, ok |-> TRUE]
  /\ UNCHANGED <<state, watchlist, decisions, now, traded_strategy, loops>>

\* portfolio.close_position(address, sell_price)
PortfolioClosePosition(address, sell_price) ==
  LET ok == ClosePositionOk(portfolio, address)
  IN /\ Len(portfolio.trade_history) < MaxTrades
     /\ portfolio' = ClosePosition(portfolio, address, sell_price,
                                   "Take profit", now)
     /\ last' = [op |-> "close", address |-> address, ok |-> ok]
     /\ now' = IF ok THEN now + 1 ELSE now
     /\ UNCHANGED <<state, watchlist, decisions, traded_strategy, loops>>

Next ==
  \/ \E token \in NewTokens, analysis \in Analyses :
        AnalyzeNewToken(token, analysis)
  \/ \E token \in Tokens, analysis \in Analyses :
        AnalyzeHeldToken(token, analysis)
  \/ \E i \in DOMAIN decisions : ExecuteDecision(i)
  \/ \E a \in TokenAddrs, p \in Prices : PositionUpdatePrice(a, p)
  \/ \E a \in TokenAddrs, p \in Prices : PortfolioClosePosition(a, p)

Spec == Init /\ [][Next]_vars

\* ------------------------------ PortfolioManager in the demo programs

\* PortfolioManager.initialize_demo_positions: DUST, PRICELESS, WAGMI.
\* 1632653 x 0.000245 = 400.00 USD, 33707865 x 0.00000891 = 300.34 USD and
\* 1923076 x 0.000156 = 300.00 USD, in lots of one cent at the entry price;
\* the current prices are 127 %, 130 % and 92 % of the entry prices.
DemoPositions ==
  << [address |-> 1, entry_price |-> 100, current_price |-> 127,
      quantity |-> 40000, entry_time |-> 0],
     [address |-> 2, entry_price |-> 100, current_price |-> 130,
      quantity |-> 30034, entry_time |-> 0],
     [address |-> 3, entry_price |-> 100, current_price |-> 92,
      quantity |-> 30000, entry_time |-> 0] >>

DemoAddrs == {DemoPositions[i].address : i \in DOMAIN DemoPositions}

RECURSIVE SeedPositions(_, _)
\* for pos_data in positions: position.update_price(current_price);
\* portfolio.add_position(position)
SeedPositions(pf, positions) ==
  IF positions = << >> THEN pf
  ELSE LET pos_data == Head(positions)
           position == UpdatePrice(
                         NewPosition(pos_data.address, pos_data.entry_price,
                                     pos_data.current_price,
                                     pos_data.quantity, pos_data.entry_time),
                         pos_data.current_price)
       IN SeedPositions(AddPosition(pf, position), Tail(positions))

\* PortfolioManager(starting_balance=1000.0)
InitDemo ==
  /\ portfolio = NewPortfolio(StartingBalance)
  /\ state = NewAgentState
  /\ watchlist = << >>
  /\ decisions = << >>
  /\ now = 0
  /\ traded_strategy = [a \in Addr |-> "none"]
  /\ last = Other
  /\ loops = NoLoops

\* portfolio.initialize_demo_positions(), called once after construction
InitializeDemoPositions ==
  /\ portfolio.trade_history = << >>
  /\ portfolio' = SeedPositions(portfolio, DemoPositions)
  /\ last' = [op |-> "seed", address |-> 0, ok |-> TRUE]
  /\ UNCHANGED <<state, watchlist, decisions, now, traded_strategy, loops>>

\* The price loop of the demo programs: the quotes that arrived, then
\* portfolio.update_all_prices(price_updates).
DemoUpdatePrices(price_updates) ==
  /\ portfolio.trade_history # << >>
  /\ PortfolioUpdateAllPrices(price_updates)

NextDemo ==
  \/ InitializeDemoPositions
  \/ \E m \in PriceMaps(DemoAddrs) : DemoUpdatePrices(m)

SpecDemo == InitDemo /\ [][NextDemo]_vars

\* ------------------------------------------------------ ContinuousAITrader

\* decisions[:3] of market_scan_loop
TopDecisions == 3

\* ContinuousAITrader.__init__ reads the clock at this hour.
StartHour == 5

\* ContinuousAITrader._initialize_positions: MOON, ROCKET, WAGMI.
\* 1000000 x 0.000156 = 156.00 USD, 85470 x 0.00234 = 200.00 USD and
\* 168539 x 0.000891 = 150.17 USD, in lots of one cent at the entry price,
\* entered 2, 5 and 1 hours before.
InitialPositions ==
  << [address |-> 1, entry_price |-> 100, quantity |-> 15600,
      entry_time |-> StartHour - 2],
     [address |-> 2, entry_price |-> 100, quantity |-> 20000,
      entry_time |-> StartHour - 5],
     [address |-> 3, entry_price |-> 100, quantity |-> 15017,
      entry_time |-> StartHour - 1] >>

\* entry_price * random.uniform(0.9, 1.3), in percent of the entry price:
\* the draws for the three positions.
SeedPrices == {<<90, 90, 90>>, <<130, 110, 95>>}

\* position.current_price * random.uniform(0.97, 1.03), in percent: the
\* draws of one cycle, per address.
Moves ==
  { [a \in Addr |-> 97],
    [a \in Addr |-> IF a % 2 = 0 THEN 97 ELSE 103] }

\* The analyses of a market scan that lead to a decision or to the watchlist.
TraderAnalyses ==
  { Analysis("bullish", "immediate", 65, 80, 10, 1),
    Analysis("strong_bullish", "immediate", 100, 80, 20, 3),
    Analysis("bullish", "wait_dip", 65, 80, 10, 1) }

RECURSIVE SeqsUpTo(_, _)
\* The sequences over S of length at most n.
SeqsUpTo(S, n) ==
  IF n = 0 THEN {<< >>}
  ELSE LET shorter == SeqsUpTo(S, n - 1)
       IN shorter \cup {Append(q, x) : q \in shorter, x \in S}

\* DemoAPI._generate_token: address = 0x + 20 random bytes, an address no
\* position, watchlist entry or decision carries; the least one is taken.
GeneratedAddress(used) ==
  CHOOSE a \in Addr \ used : \A b \in Addr \ used : a <= b

SeqRange(q) == {q[i] : i \in DOMAIN q}

RECURSIVE SortByConfidence(_)
\* decisions.sort(key=lambda d: d.confidence, reverse=True): stable.
SortByConfidence(ds) ==
  IF ds = << >> THEN << >>
  ELSE LET top == CHOOSE c \in {ds[i].confidence : i \in DOMAIN ds} :
                    \A i \in DOMAIN ds : ds[i].confidence <= c
           IsTop(d) == d.confidence = top
           IsRest(d) == d.confidence # top
       IN SelectSeq(ds, IsTop) \o SortByConfidence(SelectSeq(ds, IsRest))

RECURSIVE ScanMarket(_, _, _, _, _)
\* AITradingAgent.scan_market: analyze_token_opportunity on every token the
\* API generated (offers: their analyses); DemoAPI.get_token_pairs answers []
\* for the positions of the trader, so the loop over the positions adds
\* nothing.  The watchlist and the decisions found, not yet sorted.
ScanMarket(pf, st, wl, found, offers) ==
  IF offers = << >> THEN [watchlist |-> wl, decisions |-> found]
  ELSE LET used == OpenAddrs(pf) \cup SeqRange(wl)
                     \cup {found[i].address : i \in DOMAIN found}
           token == [address |-> GeneratedAddress(used), price_usd |-> 100]
           analysis == Head(offers)
           decision == TokenOpportunityDecision(pf, st, token, analysis, 0)
       IN ScanMarket(pf, st,
                     TokenOpportunityWatchlist(pf, wl, token, analysis),
                     IF decision # NoDecision THEN Append(found, decision)
                     ELSE found,
                     Tail(offers))

\* market_scan_loop: the index of the next decision of the batch whose buy
\* succeeds, 0 when none does (a refused buy changes nothing).
NextExecutable(pf, ds) ==
  LET Runs(i) == /\ ds[i].action = "buy"
                 /\ CanOpenPosition(pf)
                 /\ ExecuteDecisionOk(pf, ds[i])
  IN IF \E i \in DOMAIN ds : Runs(i)
     THEN CHOOSE i \in DOMAIN ds : Runs(i) /\ \A j \in 1..(i - 1) : ~Runs(j)
     ELSE 0

\* market_scan_loop, for decision in decisions[:3]: up to the sleep that
\* follows a successful trade, or to the end of the batch.
RunBatch(ds) ==
  LET i == NextExecutable(portfolio, ds)
  IN IF i = 0
     THEN /\ decisions' = << >>
          /\ loops' = [loops EXCEPT !.market_scan = "sleep"]
          /\ last' = Other
          /\ UNCHANGED <<portfolio, state, now, traded_strategy>>
     ELSE /\ portfolio' = ExecuteDecisionPf(portfolio, ds[i], now)
          /\ state' = ExecuteDecisionState(portfolio, state, ds[i])
          /\ decisions' = SubSeq(ds, i + 1, Len(ds))
          /\ loops' = [loops EXCEPT !.market_scan = "trading"]
          /\ traded_strategy' =
               [traded_strategy EXCEPT ![ds[i].address] = ds[i].strategy]
          /\ last' = [op |-> "buy", address |-> ds[i].address, ok |-> TRUE]
          /\ now' = now + 1

InitTrader ==
  /\ \E price \in SeedPrices :
       portfolio =
         SeedPositions(NewPortfolio(StartingBalance),
                       [i \in DOMAIN InitialPositions |->
                          [address |-> InitialPositions[i].address,
                           entry_price |-> InitialPositions[i].entry_price,
                           current_price |->
                             (InitialPositions[i].entry_price * price[i])
                               \div 100,
                           quantity |-> InitialPositions[i].quantity,
                           entry_time |-> InitialPositions[i].entry_time]])
  /\ state = NewAgentState
  /\ watchlist = << >>
  /\ decisions = << >>
  /\ now = StartHour
  /\ traded_strategy = [a \in Addr |-> "none"]
  /\ last = Other
  /\ loops = [market_scan |-> "sleep", scans |-> 0, checks |-> 0]

\* market_scan_loop: a cycle, from scan_market to its first sleep.
MarketScanCycle(offers) ==
  /\ loops.market_scan = "sleep"
  /\ loops.scans < MaxScans
  /\ Len(offers) <= Cardinality(Addr \ (OpenAddrs(portfolio)
                                         \cup SeqRange(watchlist)))
  /\ LET scan == ScanMarket(portfolio, state, watchlist, << >>, offers)
         sorted == SortByConfidence(scan.decisions)
         batch == SubSeq(sorted, 1, IF Len(sorted) < TopDecisions
                                    THEN Len(sorted) ELSE TopDecisions)
         i == NextExecutable(portfolio, batch)
     IN /\ watchlist' = scan.watchlist
        /\ IF i = 0
           THEN /\ decisions' = << >>
                /\ loops' = [loops EXCEPT !.scans = @ + 1]
                /\ last' = Other
                /\ UNCHANGED <<portfolio, state, now, traded_strategy>>
           ELSE /\ portfolio' = ExecuteDecisionPf(portfolio, batch[i], now)
                /\ state' = ExecuteDecisionState(portfolio, state, batch[i])
                /\ decisions' = SubSeq(batch, i + 1, Len(batch))
                /\ loops' = [loops EXCEPT !.scans = @ + 1,
                                          !.market_scan = "trading"]
                /\ traded_strategy' =
                     [traded_strategy EXCEPT
                        ![batch[i].address] = batch[i].strategy]
                /\ last' = [op |-> "buy", address |-> batch[i].address,
                            ok |-> TRUE]
                /\ now' = now + 1

\* market_scan_loop: back from asyncio.sleep(2), the rest of the batch.
MarketScanResume ==
  /\ loops.market_scan = "trading"
  /\ RunBatch(decisions)
  /\ UNCHANGED watchlist

RECURSIVE CheckPositions(_, _, _)
\* position_check_loop, for position in list(positions.values()): the
\* simulated price, then _analyze_existing_position on the generated token,
\* whose address is a random one, and execute_decision on a sell.
CheckPositions(pf, todo, move) ==
  IF todo = {} THEN pf
  ELSE LET a == CHOOSE x \in todo : \A y \in todo : x <= y
           position == pf.positions[a]
           new_price == (position.current_price * move[a]) \div 100
           moved == [pf EXCEPT !.positions[a] = UpdatePrice(@, new_price)]
           token_data == [address |-> GeneratedAddress(OpenAddrs(pf)),
                          price_usd |-> new_price]
           decision == ExistingPositionDecision(
                         moved, state, token_data,
                         Analysis("neutral", "avoid", 65, 80, 10, 1), now)
           after == IF decision # NoDecision /\ decision.action = "sell"
                    THEN ExecuteDecisionPf(
                           ExistingPositionPf(moved, token_data), decision, now)
                    ELSE ExistingPositionPf(moved, token_data)
       IN CheckPositions(after, todo \ {a}, move)

\* position_check_loop: a cycle.
PositionCheckCycle(move) ==
  /\ loops # NoLoops
  /\ loops.checks < MaxChecks
  /\ OpenAddrs(portfolio) # {}
  /\ portfolio' = CheckPositions(portfolio, OpenAddrs(portfolio), move)
  /\ loops' = [loops EXCEPT !.checks = @ + 1]
  /\ last' = Other
  /\ UNCHANGED <<state, watchlist, decisions, now, traded_strategy>>

\* deep_analysis_loop: a cycle; the decision is logged and dropped, and no
\* watchlist address is held, so nothing is left changed.
DeepAnalysisCycle ==
  /\ loops # NoLoops
  /\ watchlist # << >>
  /\ \A i \in DOMAIN watchlist : watchlist[i] \notin OpenAddrs(portfolio)
  /\ UNCHANGED vars

\* status_report_loop: a cycle; it only reads.
StatusReportCycle ==
  /\ loops # NoLoops
  /\ UNCHANGED vars

NextTrader ==
  \/ \E offers \in SeqsUpTo(TraderAnalyses, MaxOffers) : MarketScanCycle(offers)
  \/ MarketScanResume
  \/ \E move \in Moves : PositionCheckCycle(move)
  \/ DeepAnalysisCycle
  \/ StatusReportCycle

SpecTrader == InitTrader /\ [][NextTrader]_vars

\* ------------------------------------- ContinuousAITrader.run and stop

\* The four tasks of run().
LoopNames == {"market_scan", "position_check", "deep_analysis", "status_report"}

\* The tokens one scan of the running trader is offered.
RunOffers ==
  { << >>,
    << Analysis("strong_bullish", "immediate", 100, 80, 20, 3),
       Analysis("bullish", "wait_dip", 65, 80, 10, 1),
       Analysis("bullish", "immediate", 65, 80, 10, 1) >> }

\* while True
LoopContinuesAlways(loop) == TRUE

\* while self.is_running, read when the loop starts and when its sleep
\* returns
LoopContinues(loop) == loops.is_running

\* ContinuousAITrader() and run() up to asyncio.gather: the four tasks are
\* created and none has run.
InitRun ==
  /\ portfolio =
       SeedPositions(NewPortfolio(StartingBalance),
                     [i \in DOMAIN InitialPositions |->
                        [address |-> InitialPositions[i].address,
                         entry_price |-> InitialPositions[i].entry_price,
                         current_price |-> InitialPositions[i].entry_price,
                         quantity |-> InitialPositions[i].quantity,
                         entry_time |-> InitialPositions[i].entry_time]])
  /\ state = NewAgentState
  /\ watchlist = << >>
  /\ decisions = << >>
  /\ now = StartHour
  /\ traded_strategy = [a \in Addr |-> "none"]
  /\ last = Other
  /\ loops = [market_scan |-> "sleep", position_check |-> "sleep",
              deep_analysis |-> "sleep", status_report |-> "sleep",
              is_running |-> TRUE, run |-> "gather",
              scans |-> 0, checks |-> 0]

\* market_scan_loop: the loop goes on and runs a cycle.
RunMarketScan(offers) ==
  /\ LoopContinues("market_scan")
  /\ MarketScanCycle(offers)

\* market_scan_loop: back from asyncio.sleep(2), the rest of the batch.
RunMarketScanResume == MarketScanResume

\* position_check_loop: the loop goes on and runs a cycle.
RunPositionCheck(move) ==
  /\ LoopContinues("position_check")
  /\ loops.position_check = "sleep"
  /\ PositionCheckCycle(move)

\* deep_analysis_loop: the loop goes on and runs a cycle, which leaves
\* nothing changed.
RunDeepAnalysis ==
  /\ LoopContinues("deep_analysis")
  /\ loops.deep_analysis = "sleep"
  /\ last' = [op |-> "deep_analysis", address |-> 0, ok |-> TRUE]
  /\ UNCHANGED <<portfolio, state, watchlist, decisions, now, traded_strategy,
                 loops>>

\* status_report_loop: the loop goes on and runs a cycle, which only reads.
RunStatusReport ==
  /\ LoopContinues("status_report")
  /\ loops.status_report = "sleep"
  /\ last' = [op |-> "status_report", address |-> 0, ok |-> TRUE]
  /\ UNCHANGED <<portfolio, state, watchlist, decisions, now, traded_strategy,
                 loops>>

\* No try / except in the loop: the exception ends the task.
AfterExceptionUncaught(loop) == [loops EXCEPT ![loop] = "done"]

\* except Exception as e: logger.error(...), then the sleep of the loop
AfterException(loop) == [loops EXCEPT ![loop] = "sleep"]

\* The addresses up to which a position check gets before it raises.
RaisePoints == {2}

\* The draws of a position check of the running trader.
RunMoves == {[a \in Addr |-> 97]}

\* market_scan_loop: scan_market raises after it analysed the tokens in
\* offers; the watchlist entries made so far stay.
RunMarketScanRaises(offers) ==
  /\ LoopContinues("market_scan")
  /\ loops.market_scan = "sleep"
  /\ loops.scans < MaxScans
  /\ Len(offers) <= Cardinality(Addr \ (OpenAddrs(portfolio)
                                         \cup SeqRange(watchlist)))
  /\ watchlist' = ScanMarket(portfolio, state, watchlist, << >>,
                             offers).watchlist
  /\ loops' = [AfterException("market_scan") EXCEPT !.scans = @ + 1]
  /\ last' = [op |-> "market_scan", address |-> 0, ok |-> FALSE]
  /\ UNCHANGED <<portfolio, state, decisions, now, traded_strategy>>

\* position_check_loop: the cycle raises after the positions up to an
\* address; their new prices stay.
RunPositionCheckRaises(move, upto) ==
  /\ LoopContinues("position_check")
  /\ loops.position_check = "sleep"
  /\ loops.checks < MaxChecks
  /\ OpenAddrs(portfolio) # {}
  /\ portfolio' = CheckPositions(portfolio,
                                 {a \in OpenAddrs(portfolio) : a <= upto}, move)
  /\ loops' = [AfterException("position_check") EXCEPT !.checks = @ + 1]
  /\ last' = [op |-> "position_check", address |-> 0, ok |-> FALSE]
  /\ UNCHANGED <<state, watchlist, decisions, now, traded_strategy>>

\* deep_analysis_loop, status_report_loop: the cycle raises.
RunReadingLoopRaises(loop) ==
  /\ LoopContinues(loop)
  /\ loops[loop] = "sleep"
  /\ loops' = AfterException(loop)
  /\ last' = [op |-> loop, address |-> 0, ok |-> FALSE]
  /\ UNCHANGED <<portfolio, state, watchlist, decisions, now, traded_strategy>>

\* A loop's sleep returns, the while condition is false and the task ends.
LoopExit(loop) ==
  /\ ~LoopContinues(loop)
  /\ loops[loop] = "sleep"
  /\ loops' = [loops EXCEPT ![loop] = "done"]
  /\ last' = Other
  /\ UNCHANGED <<portfolio, state, watchlist, decisions, now, traded_strategy>>

\* ContinuousAITrader.stop
Stop ==
  /\ loops.is_running
  /\ loops' = [loops EXCEPT !.is_running = FALSE]
  /\ last' = Other
  /\ UNCHANGED <<portfolio, state, watchlist, decisions, now, traded_strategy>>

\* run: await asyncio.gather(*tasks) returns when the four tasks have ended.
RunCompletes ==
  /\ loops.run = "gather"
  /\ \A loop \in LoopNames : loops[loop] = "done"
  /\ loops' = [loops EXCEPT !.run = "done"]
  /\ last' = Other
  /\ UNCHANGED <<portfolio, state, watchlist, decisions, now, traded_strategy>>

NextRun ==
  \/ \E offers \in RunOffers : RunMarketScan(offers)
  \/ RunMarketScanResume
  \/ \E move \in RunMoves : RunPositionCheck(move)
  \/ RunDeepAnalysis
  \/ RunStatusReport
  \/ \E offers \in RunOffers : RunMarketScanRaises(offers)
  \/ \E move \in RunMoves, upto \in RaisePoints :
        RunPositionCheckRaises(move, upto)
  \/ \E loop \in {"deep_analysis", "status_report"} :
        RunReadingLoopRaises(loop)
  \/ \E loop \in LoopNames : LoopExit(loop)
  \/ Stop
  \/ RunCompletes

\* The event loop runs a task whose sleep has returned, and run() when
\* the tasks it gathers have ended.
FairRun ==
  WF_vars(\/ \E loop \in LoopNames : LoopExit(loop)
          \/ RunCompletes
          \/ RunMarketScanResume)

SpecRun == InitRun /\ [][NextRun]_vars /\ FairRun

\* ------------------- the agent of the trader driven through its methods

\* Quotes of the open positions, in percent of 1e-2 USD per lot: a crash, a
\* fall to a fifth and a fourfold rise.
SeededQuotes == {1, 20, 400}

\* The analyses that lead to a buy decision.
BuyAnalyses == { Analysis("strong_bullish", "immediate", 100, 80, 20, 3) }

\* AITradingAgent(api, 1000.0) with the positions of _initialize_positions
\* added; no loop is started.
InitSeeded ==
  /\ \E price \in SeedPrices :
       portfolio =
         SeedPositions(NewPortfolio(StartingBalance),
                       [i \in DOMAIN InitialPositions |->
                          [address |-> InitialPositions[i].address,
                           entry_price |-> InitialPositions[i].entry_price,
                           current_price |->
                             (InitialPositions[i].entry_price * price[i])
                               \div 100,
                           quantity |-> InitialPositions[i].quantity,
                           entry_time |-> InitialPositions[i].entry_time]])
  /\ state = NewAgentState
  /\ watchlist = << >>
  /\ decisions = << >>
  /\ now = StartHour
  /\ traded_strategy = [a \in Addr |-> "none"]
  /\ last = Other
  /\ loops = NoLoops

\* decision = await agent.analyze_token_opportunity(token), the token a
\* generated one
SeededAnalyze(analysis) ==
  LET used == OpenAddrs(portfolio)
                \cup {decisions[i].address : i \in DOMAIN decisions}
  IN /\ used # Addr
     /\ Len(decisions) < MaxPending
     /\ AnalyzeToken([address |-> GeneratedAddress(used), price_usd |-> 100],
                     analysis)

\* success = await agent.execute_decision(decisions[i])
SeededExecute(i) ==
  LET decision == decisions[i]
      ok == ExecuteDecisionOk(portfolio, decision)
  IN /\ portfolio' = ExecuteDecisionPf(portfolio, decision, now)
     /\ state' = ExecuteDecisionState(portfolio, state, decision)
     /\ decisions' = [j \in 1..(Len(decisions) - 1) |->
                        IF j < i THEN decisions[j] ELSE decisions[j + 1]]
     /\ traded_strategy' =
          IF decision.action = "buy" /\ ok
          THEN [traded_strategy EXCEPT ![decision.address] = decision.strategy]
          ELSE traded_strategy
     /\ last' = [op |-> decision.action, address |-> decision.address, ok |-> ok]
     /\ now' = IF ok THEN now + 1 ELSE now
     /\ UNCHANGED <<watchlist, loops>>

\* portfolio.update_all_prices(price_updates), every open position quoted
SeededUpdatePrices(quote) ==
  /\ portfolio' = UpdateAllPrices(portfolio,
                                  [a \in OpenAddrs(portfolio) |-> quote])
  /\ last' = Other
  /\ UNCHANGED <<state, watchlist, decisions, now, traded_strategy, loops>>

NextSeeded ==
  \/ \E analysis \in BuyAnalyses : SeededAnalyze(analysis)
  \/ \E i \in DOMAIN decisions : SeededExecute(i)
  \/ \E quote \in SeededQuotes : SeededUpdatePrices(quote)

SpecSeeded == InitSeeded /\ [][NextSeeded]_vars

\* ---------------------------------------------------------- DexScreenerAPI

\* The JSON values found in the lists of a payload: a pair, a pair whose
\* priceUsd is null, a number, and items {"pairs": [pair]}, {"pairs": null},
\* {"pairs": [pair whose priceUsd is null]}.
Elements ==
  {"pair", "pair_null_price", "number",
   "item_pair", "item_null_pairs", "item_null_price"}

Keys == {"pairs", "tokens", "gainers", "losers"}

\* A decoded body: null, a list, or an object with at most one of the keys,
\* its value null or a list.
Body(kind, key, value, items) ==
  [kind |-> kind, key |-> key, value |-> value, items |-> items]

NoData == Body("null", "none", "null", << >>)

ItemLists == {<< >>} \cup {<<e>> : e \in Elements}

Bodies ==
  {NoData, Body("not_json", "none", "null", << >>),
   Body("dict", "none", "null", << >>)}
    \cup {Body("list", "none", "list", items) : items \in ItemLists}
    \cup {Body("dict", key, "null", << >>) : key \in Keys}
    \cup {Body("dict", key, "list", items) : key \in Keys, items \in ItemLists}

\* What session.get does: it raises (timeout, connection error) or answers
\* with a status and a body.
Responses ==
  {[outcome |-> "raises", status |-> 0, body |-> NoData]}
    \cup {[outcome |-> "answers", status |-> status, body |-> NoData] :
            status \in {404, 500}}
    \cup {[outcome |-> "answers", status |-> 200, body |-> body] :
            body \in Bodies}

Queries ==
  {"search_pairs", "get_token_pairs", "get_trending_tokens", "get_new_pairs",
   "get_gainers_losers"}

\* DexScreenerAPI._make_request: the data it returns, None as NoData.
MakeRequest(response) ==
  IF response.outcome = "raises" THEN NoData
  ELSE IF response.status = 200
    THEN IF response.body.kind = "not_json" THEN NoData ELSE response.body
  ELSE NoData

\* if data: a non-empty list or object
Truthy(data) ==
  \/ data.kind = "list" /\ data.items # << >>
  \/ data.kind = "dict" /\ data.key # "none"

\* key in data
HasKey(data, key) == data.kind = "dict" /\ data.key = key

\* TokenData.from_dict raises: .get on a number, float(None).
FromDictRaises(element) == element \in {"number", "pair_null_price"}

\* item['pairs'][0] of an item whose 'pairs' is a non-empty list
FirstPair(item) == IF item = "item_pair" THEN "pair" ELSE "pair_null_price"

\* 'pairs' in item and item['pairs']
HasPairs(item) == item \in {"item_pair", "item_null_price"}

QueryResult(raised, tokens) == [raised |-> raised, tokens |-> tokens]

RECURSIVE PairsToTokens(_, _)
\* [TokenData.from_dict(pair) for pair in data['pairs']]
PairsToTokens(items, tokens) ==
  IF items = << >> THEN QueryResult(FALSE, tokens)
  ELSE IF FromDictRaises(Head(items)) THEN QueryResult(TRUE, 0)
  ELSE PairsToTokens(Tail(items), tokens + 1)

RECURSIVE ItemsToTokens(_, _, _)
\* for item in ...: if [isinstance(item, dict) and] 'pairs' in item and
\* item['pairs']: tokens.append(TokenData.from_dict(item['pairs'][0]))
ItemsToTokens(items, tokens, tests_dict) ==
  IF items = << >> THEN QueryResult(FALSE, tokens)
  ELSE LET item == Head(items)
       IN IF item = "number"
          THEN IF tests_dict THEN ItemsToTokens(Tail(items), tokens, tests_dict)
               ELSE QueryResult(TRUE, 0)
          ELSE IF HasPairs(item)
            THEN IF FromDictRaises(FirstPair(item)) THEN QueryResult(TRUE, 0)
                 ELSE ItemsToTokens(Tail(items), tokens + 1, tests_dict)
          ELSE ItemsToTokens(Tail(items), tokens, tests_dict)

\* DexScreenerAPI.search_pairs, get_token_pairs
SearchPairs(response) ==
  LET data == MakeRequest(response)
  IN IF Truthy(data) /\ HasKey(data, "pairs")
     THEN IF data.value = "null" THEN QueryResult(TRUE, 0)
          ELSE PairsToTokens(data.items, 0)
     ELSE QueryResult(FALSE, 0)

\* DexScreenerAPI.get_trending_tokens
GetTrendingTokens(response) ==
  LET data == MakeRequest(response)
  IN IF ~Truthy(data) THEN QueryResult(FALSE, 0)
     ELSE IF data.kind = "list" THEN ItemsToTokens(data.items, 0, TRUE)
     ELSE IF HasKey(data, "tokens")
       THEN IF data.value = "null" THEN QueryResult(TRUE, 0)
            ELSE ItemsToTokens(data.items, 0, TRUE)
     ELSE QueryResult(FALSE, 0)

\* DexScreenerAPI.get_new_pairs: the try / except around each pair drops
\* the pairs that raise; the pairs of the model are recent ones.
GetNewPairs(response) ==
  LET data == MakeRequest(response)
      Kept(element) == ~FromDictRaises(element)
  IN IF Truthy(data) /\ HasKey(data, "pairs")
     THEN IF data.value = "null" THEN QueryResult(TRUE, 0)
          ELSE QueryResult(FALSE, Len(SelectSeq(data.items, Kept)))
     ELSE QueryResult(FALSE, 0)

\* DexScreenerAPI.get_gainers_losers: the tokens of both lists.
GetGainersLosers(response) ==
  LET data == MakeRequest(response)
  IN IF Truthy(data) /\ (HasKey(data, "gainers") \/ HasKey(data, "losers"))
     THEN IF data.value = "null" THEN QueryResult(TRUE, 0)
          ELSE ItemsToTokens(data.items, 0, FALSE)
     ELSE QueryResult(FALSE, 0)

QueryAnswer(query, response) ==
  CASE query \in {"search_pairs", "get_token_pairs"} -> SearchPairs(response)
    [] query = "get_trending_tokens" -> GetTrendingTokens(response)
    [] query = "get_new_pairs" -> GetNewPairs(response)
    [] OTHER -> GetGainersLosers(response)

\* A DexScreenerAPI in its session, beside a fresh agent.
InitApi == Init

\* result = await api.<query>(...), the server answering with response
ApiQuery(query, response) ==
  /\ last' = [op |-> query, address |-> 0, ok |-> TRUE,
              response |-> response,
              result |-> QueryAnswer(query, response)]
  /\ UNCHANGED <<portfolio, state, watchlist, decisions, now, traded_strategy,
                 loops>>

NextApi == \E query \in Queries, response \in Responses : ApiQuery(query, response)

SpecApi == InitApi /\ [][NextApi]_vars

\* ------------------------------------------------- TokenSimilarityDetector

\* The fields of a TokenData the detector reads, in whole USD and percent.
TokenSnapshot(market_cap, volume_24h, liquidity_usd, price_change_24h) ==
  [market_cap |-> market_cap, volume_24h |-> volume_24h,
   liquidity_usd |-> liquidity_usd, price_change_24h |-> price_change_24h]

\* x / d > num / den and x / d >= num / den (d # 0, den > 0), in integers
RatioAbove(x, d, num, den) ==
  IF d > 0 THEN x * den > num * d ELSE x * den < num * d

RatioAtLeast(x, d, num, den) ==
  IF d > 0 THEN x * den >= num * d ELSE x * den <= num * d

\* Volume activity (30 points): volume_24h / (market_cap + 1)
VolumeScore(token) ==
  LET d == token.market_cap + 1
  IN IF RatioAbove(token.volume_24h, d, 2, 1) THEN 30
     ELSE IF RatioAbove(token.volume_24h, d, 1, 1) THEN 20
     ELSE IF RatioAbove(token.volume_24h, d, 1, 2) THEN 10
     ELSE 0

\* Price momentum (20 points)
MomentumScore(token) ==
  LET change == token.price_change_24h
  IN IF 20 <= change /\ change <= 100 THEN 20
     ELSE IF 10 <= change /\ change < 20 THEN 15
     ELSE IF 5 <= change /\ change < 10 THEN 10
     ELSE 0

\* Liquidity health (20 points)
LiquidityScore(token) ==
  IF token.liquidity_usd > 200000 THEN 20
  ELSE IF token.liquidity_usd > 100000 THEN 15
  ELSE IF token.liquidity_usd > 50000 THEN 10
  ELSE 0

\* Market cap sweet spot (30 points)
MarketCapScore(token) ==
  LET cap == token.market_cap
  IN IF 1000000 <= cap /\ cap <= 10000000 THEN 30
     ELSE IF 500000 <= cap /\ cap < 1000000 THEN 20
     ELSE IF 10000000 < cap /\ cap <= 50000000 THEN 15
     ELSE 0

\* TokenSimilarityDetector._calculate_opportunity: the division by
\* market_cap + 1 raises ZeroDivisionError when market_cap is -1.
CalculateOpportunity(token) ==
  IF token.market_cap + 1 = 0 THEN [raised |-> TRUE, score |-> 0]
  ELSE LET score == VolumeScore(token) + MomentumScore(token)
                      + LiquidityScore(token) + MarketCapScore(token)
       IN [raised |-> FALSE, score |-> IF score < 100 THEN score ELSE 100]

\* TokenSimilarityDetector.reference_tokens, the ratios as fractions
ReferenceTokens ==
  [DUST |-> [market_cap_range |-> <<1000000, 50000000>>,
             volume_to_mcap_ratio |-> <<(<<1, 2>>), (<<3, 1>>)>>,
             liquidity_threshold |-> 100000],
   PRICELESS |-> [market_cap_range |-> <<500000, 20000000>>,
                  volume_to_mcap_ratio |-> <<(<<1, 1>>), (<<5, 1>>)>>,
                  liquidity_threshold |-> 50000]]

\* The gates without the market-cap range.
PassesGatesAnyMarketCap(profile, token) ==
  LET d == token.market_cap + 1
      low == profile.volume_to_mcap_ratio[1]
      high == profile.volume_to_mcap_ratio[2]
  IN /\ d # 0
     /\ RatioAtLeast(token.volume_24h, d, low[1], low[2])
     /\ ~RatioAbove(token.volume_24h, d, high[1], high[2])
     /\ ~(token.liquidity_usd < profile.liquidity_threshold)

\* The three checks of find_dust_like_tokens / find_priceless_like_tokens
\* that do not `continue`: market cap range, volume ratio, liquidity.
PassesGates(profile, token) ==
  /\ profile.market_cap_range[1] <= token.market_cap
  /\ token.market_cap <= profile.market_cap_range[2]
  /\ LET d == token.market_cap + 1
         low == profile.volume_to_mcap_ratio[1]
         high == profile.volume_to_mcap_ratio[2]
     IN /\ RatioAtLeast(token.volume_24h, d, low[1], low[2])
        /\ ~RatioAbove(token.volume_24h, d, high[1], high[2])
  /\ ~(token.liquidity_usd < profile.liquidity_threshold)

\* SimilarityMetrics(token, analysis['opportunity_score'] / 100, ...), the
\* score kept in points
SimilarityMetrics(token) ==
  [token |-> token, similarity_score |-> CalculateOpportunity(token).score]

RECURSIVE SortBySimilarity(_)
\* filtered.sort(key=lambda x: x.similarity_score, reverse=True): stable
SortBySimilarity(ms) ==
  IF ms = << >> THEN << >>
  ELSE LET top == CHOOSE c \in {ms[i].similarity_score : i \in DOMAIN ms} :
                    \A i \in DOMAIN ms : ms[i].similarity_score <= c
           IsTop(m) == m.similarity_score = top
           IsRest(m) == m.similarity_score # top
       IN SelectSeq(ms, IsTop) \o SortBySimilarity(SelectSeq(ms, IsRest))

\* find_dust_like_tokens / find_priceless_like_tokens on the profile
FindLikeTokens(profile, candidates) ==
  LET Passes(token) == PassesGates(profile, token)
      kept == SelectSeq(candidates, Passes)
  IN SortBySimilarity([i \in DOMAIN kept |-> SimilarityMetrics(kept[i])])

MaxCandidates == 2

Snapshots ==
  {TokenSnapshot(cap, volume, liquidity, change) :
     cap \in {-2, -1, 0, 500000, 1000000, 10000000, 50000000, 60000000},
     volume \in {-3, 0, 600000, 30000000},
     liquidity \in {-1, 50001, 100001, 200001},
     change \in {-10, 5, 10, 20, 101}}

CandidateTokens ==
  {TokenSnapshot(cap, volume, liquidity, 30) :
     cap \in {500000, 1000000, 60000000},
     volume \in {600000, 2000000, 40000000},
     liquidity \in {50000, 100000}}

\* A detector beside a fresh agent, and the tokens fetched for it: one
\* snapshot of any shape, or a list of candidates.
InitDetector ==
  /\ portfolio = NewPortfolio(StartingBalance)
  /\ state = NewAgentState
  /\ watchlist = << >>
  /\ decisions = << >>
  /\ now = 0
  /\ traded_strategy = "swing"
  /\ loops = NoLoops
  /\ \E candidates \in {<<token>> : token \in Snapshots}
                          \cup SeqsUpTo(CandidateTokens, MaxCandidates) :
       last = [op |-> "candidates", address |-> 0, ok |-> TRUE,
               candidates |-> candidates]

\* detector._calculate_opportunity(token) on the first token fetched
DetectorCalculateOpportunity ==
  /\ last.op = "candidates"
  /\ last.candidates # << >>
  /\ last' = [op |-> "calculate_opportunity", address |-> 0, ok |-> TRUE,
              token |-> Head(last.candidates),
              result |-> CalculateOpportunity(Head(last.candidates))]
  /\ UNCHANGED <<portfolio, state, watchlist, decisions, now, traded_strategy,
                 loops>>

\* detector.find_dust_like_tokens(candidates)
FindDustLikeTokens ==
  /\ last.op = "candidates"
  /\ last' = [op |-> "find_dust_like_tokens", address |-> 0, ok |-> TRUE,
              candidates |-> last.candidates,
              result |-> FindLikeTokens(ReferenceTokens.DUST, last.candidates)]
  /\ UNCHANGED <<portfolio, state, watchlist, decisions, now, traded_strategy,
                 loops>>

\* detector.find_priceless_like_tokens(candidates)
FindPricelessLikeTokens ==
  /\ last.op = "candidates"
  /\ last' = [op |-> "find_priceless_like_tokens", address |-> 0, ok |-> TRUE,
              candidates |-> last.candidates,
              result |-> FindLikeTokens(ReferenceTokens.PRICELESS,
                                        last.candidates)]
  /\ UNCHANGED <<portfolio, state, watchlist, decisions, now, traded_strategy,
                 loops>>

NextDetector ==
  \/ DetectorCalculateOpportunity
  \/ FindDustLikeTokens
  \/ FindPricelessLikeTokens

SpecDetector == InitDetector /\ [][NextDetector]_vars

\* -------------------------------------------------- MultiTimeframeAnalyzer

Timeframes == {"1h", "4h", "12h", "24h", "3d"}

\* A ratio as a fraction, den > 0
Ratio(num, den) == [num |-> num, den |-> den]

Abs(x) == IF x < 0 THEN -x ELSE x

\* the ratio as computed, not capped
UncappedRatio(num, den) == Ratio(num, den)

\* min(potential_gain / potential_loss, 3.0)
CappedRatio(num, den) ==
  IF num < 3 * den THEN Ratio(num, den) ELSE Ratio(3, 1)

\* MultiTimeframeAnalyzer.calculate_risk_reward on token.price_usd and the
\* support and resistance levels of the timeframes; the averages are
\* sum / count, so the gain and the loss are kept multiplied by the counts.
CalculateRiskReward(price_usd, timeframes) ==
  LET supports == {tf \in DOMAIN timeframes : timeframes[tf].support_level > 0}
      resistances ==
        {tf \in DOMAIN timeframes : timeframes[tf].resistance_level > 0}
      SupportLevel == [tf \in DOMAIN timeframes |-> timeframes[tf].support_level]
      ResistanceLevel ==
        [tf \in DOMAIN timeframes |-> timeframes[tf].resistance_level]
      potential_loss ==
        Abs(price_usd * Cardinality(supports) - SumOver(SupportLevel, supports))
      potential_gain ==
        Abs(SumOver(ResistanceLevel, resistances)
              - price_usd * Cardinality(resistances))
  IN IF supports = {} \/ resistances = {} THEN Ratio(1, 1)
     ELSE IF potential_loss = 0 THEN Ratio(3, 1)
     ELSE CappedRatio(potential_gain * Cardinality(supports),
                      potential_loss * Cardinality(resistances))

RECURSIVE SumSeq(_)
SumSeq(q) == IF q = << >> THEN 0 ELSE Head(q) + SumSeq(Tail(q))

\* MultiTimeframeAnalyzer.calculate_volume_trend:
\* ratio = mean(second half) / (mean(first half) + 1) against 1.3 and 0.7
CalculateVolumeTrend(volumes) ==
  IF Len(volumes) < 2 THEN "stable"
  ELSE LET half == Len(volumes) \div 2
           rest == Len(volumes) - half
           first_sum == SumSeq(SubSeq(volumes, 1, half))
           second_sum == SumSeq(SubSeq(volumes, half + 1, Len(volumes)))
           num == second_sum * half
           den == rest * (first_sum + half)
       IN IF 10 * num > 13 * den THEN "increasing"
          ELSE IF 10 * num < 7 * den THEN "decreasing"
          ELSE "stable"

\* MultiTimeframeAnalyzer.calculate_price_momentum, as its score in
\* calculate_overall_trend: strong_bullish 2 ... strong_bearish -2
MomentumOf(price_change) ==
  IF price_change > 50 THEN 2
  ELSE IF price_change > 20 THEN 1
  ELSE IF price_change > -10 THEN 0
  ELSE IF price_change > -30 THEN -1
  ELSE -2

\* timeframe_weights, in hundredths
TimeframeWeights ==
  [tf \in Timeframes |->
     CASE tf = "1h" -> 15 [] tf = "4h" -> 25 [] tf = "12h" -> 25
       [] tf = "24h" -> 20 [] OTHER -> 15]

\* MultiTimeframeAnalyzer.calculate_overall_trend
CalculateOverallTrend(timeframes) ==
  LET weighted_score ==
        SumOver([tf \in DOMAIN timeframes |->
                   TimeframeWeights[tf] * MomentumOf(timeframes[tf].price_change)],
                DOMAIN timeframes)
  IN IF weighted_score > 150 THEN "strong_bullish"
     ELSE IF weighted_score > 50 THEN "bullish"
     ELSE IF weighted_score > -50 THEN "neutral"
     ELSE IF weighted_score > -150 THEN "bearish"
     ELSE "strong_bearish"

\* calculate_entry_timing reading timeframes['1h'] and timeframes['4h']
\* without the test for a missing entry: the trend decides.
CalculateEntryTimingNoDefault(price_usd, timeframes, overall_trend) ==
  IF overall_trend \in {"bullish", "strong_bullish"}
  THEN IF "1h" \notin DOMAIN timeframes THEN "immediate"
       ELSE LET short_term == timeframes["1h"]
            IN IF short_term.price_change > 30 /\ short_term.volatility > 10
               THEN "wait_dip"
               ELSE IF 10 * price_usd < 11 * short_term.support_level
                 THEN "immediate"
               ELSE IF 100 * price_usd > 95 * short_term.resistance_level
                 THEN "wait_breakout"
               ELSE "immediate"
  ELSE "avoid"

\* MultiTimeframeAnalyzer.calculate_entry_timing; timeframes is a function
\* on the timeframes the dict has.
CalculateEntryTiming(price_usd, timeframes, overall_trend) ==
  IF "1h" \notin DOMAIN timeframes \/ "4h" \notin DOMAIN timeframes
  THEN "wait_dip"
  ELSE IF overall_trend \in {"bullish", "strong_bullish"}
    THEN LET short_term == timeframes["1h"]
         IN IF short_term.price_change > 30 /\ short_term.volatility > 10
            THEN "wait_dip"
            ELSE IF 10 * price_usd < 11 * short_term.support_level
              THEN "immediate"
            ELSE IF 100 * price_usd > 95 * short_term.resistance_level
              THEN "wait_breakout"
            ELSE "immediate"
  ELSE "avoid"

\* MultiTimeframeAnalyzer.analyze_timeframe on a timeframe without history:
\* the 24h change of the token, no levels, no volatility.
EmptyTimeframe(price_change_24h) ==
  [price_change |-> price_change_24h, volatility |-> 0,
   support_level |-> 0, resistance_level |-> 0]

\* MultiTimeframeAnalyzer.analyze_token, for tf in ['1h', ..., '3d']: every
\* timeframe gets an entry, those the history lacks included.
AnalyzeTokenTimeframes(price_change_24h, history) ==
  [tf \in Timeframes |->
     IF tf \in DOMAIN history THEN history[tf]
     ELSE EmptyTimeframe(price_change_24h)]

\* MultiTimeframeAnalyzer.analyze_token: the entry_timing of the analysis
AnalyzeTokenEntryTiming(price_usd, price_change_24h, history) ==
  LET timeframes == AnalyzeTokenTimeframes(price_change_24h, history)
  IN CalculateEntryTiming(price_usd, timeframes,
                          CalculateOverallTrend(timeframes))

Trends == {"strong_bullish", "bullish", "neutral", "bearish", "strong_bearish"}

\* What analyze_timeframe makes of a history
TimeframeShapes ==
  { [price_change |-> 40, volatility |-> 12,
     support_level |-> 2, resistance_level |-> 4],
    [price_change |-> 60, volatility |-> 5,
     support_level |-> 4, resistance_level |-> 12],
    [price_change |-> -40, volatility |-> 5,
     support_level |-> 2, resistance_level |-> 4] }

\* The timeframes analysed from a history: those it has data for.
PartialTimeframes ==
  UNION {{[tf \in S |-> shape] : shape \in TimeframeShapes} :
           S \in SUBSET Timeframes}

MaxVolumes == 4

VolumeLevels == {0, 1, 2, 4, 1000, 2000}

\* (support, resistance) of a timeframe: the 20th and 80th percentile of its
\* prices, (0, 0) without prices
LevelPairs == {<<0, 0>>, <<0, 4>>, <<2, 4>>, <<4, 12>>}

AnalyzerPrices == {0, 2, 3, 4, 5, 12}

TimeframeLevels ==
  {[tf \in Timeframes |-> [support_level |-> levels[tf][1],
                            resistance_level |-> levels[tf][2]]] :
     levels \in [Timeframes -> LevelPairs]}

\* An analyzer beside a fresh agent, and the history handed to it: the
\* timeframes of a token at a price, or a series of volumes.
InitAnalyzer ==
  /\ portfolio = NewPortfolio(StartingBalance)
  /\ state = NewAgentState
  /\ watchlist = << >>
  /\ decisions = << >>
  /\ now = 0
  /\ traded_strategy = "swing"
  /\ loops = NoLoops
  /\ \/ \E price_usd \in AnalyzerPrices, timeframes \in TimeframeLevels :
          last = [op |-> "timeframes", address |-> 0, ok |-> TRUE,
                  price_usd |-> price_usd, timeframes |-> timeframes]
     \/ \E volumes \in SeqsUpTo(VolumeLevels, MaxVolumes) :
          last = [op |-> "volumes", address |-> 0, ok |-> TRUE,
                  volumes |-> volumes]
     \/ \E price_usd \in {2, 5}, price_change_24h \in {60, -40},
           overall_trend \in Trends, timeframes \in PartialTimeframes :
          last = [op |-> "history", address |-> 0, ok |-> TRUE,
                  price_usd |-> price_usd,
                  price_change_24h |-> price_change_24h,
                  overall_trend |-> overall_trend, timeframes |-> timeframes]

\* analyzer.calculate_risk_reward(token, timeframes)
AnalyzerCalculateRiskReward ==
  /\ last.op = "timeframes"
  /\ last' = [op |-> "calculate_risk_reward", address |-> 0, ok |-> TRUE,
              price_usd |-> last.price_usd, timeframes |-> last.timeframes,
              result |-> CalculateRiskReward(last.price_usd, last.timeframes)]
  /\ UNCHANGED <<portfolio, state, watchlist, decisions, now, traded_strategy,
                 loops>>

\* analyzer.calculate_volume_trend(volumes)
AnalyzerCalculateVolumeTrend ==
  /\ last.op = "volumes"
  /\ last' = [op |-> "calculate_volume_trend", address |-> 0, ok |-> TRUE,
              volumes |-> last.volumes,
              result |-> CalculateVolumeTrend(last.volumes)]
  /\ UNCHANGED <<portfolio, state, watchlist, decisions, now, traded_strategy,
                 loops>>

\* analyzer.calculate_entry_timing(token, timeframes, overall_trend)
AnalyzerCalculateEntryTiming ==
  /\ last.op = "history"
  /\ last' = [op |-> "calculate_entry_timing", address |-> 0, ok |-> TRUE,
              timeframes |-> last.timeframes,
              overall_trend |-> last.overall_trend,
              result |-> CalculateEntryTiming(last.price_usd, last.timeframes,
                                              last.overall_trend)]
  /\ UNCHANGED <<portfolio, state, watchlist, decisions, now, traded_strategy,
                 loops>>

\* analysis = await analyzer.analyze_token(token, price_history, ...), the
\* history not empty
AnalyzerAnalyzeToken ==
  /\ last.op = "history"
  /\ DOMAIN last.timeframes # {}
  /\ last' = [op |-> "analyze_token", address |-> 0, ok |-> TRUE,
              timeframes |-> AnalyzeTokenTimeframes(last.price_change_24h,
                                                    last.timeframes),
              overall_trend |->
                CalculateOverallTrend(
                  AnalyzeTokenTimeframes(last.price_change_24h,
                                         last.timeframes)),
              result |-> AnalyzeTokenEntryTiming(last.price_usd,
                                                 last.price_change_24h,
                                                 last.timeframes)]
  /\ UNCHANGED <<portfolio, state, watchlist, decisions, now, traded_strategy,
                 loops>>

NextAnalyzer ==
  \/ AnalyzerCalculateRiskReward
  \/ AnalyzerCalculateVolumeTrend
  \/ AnalyzerCalculateEntryTiming
  \/ AnalyzerAnalyzeToken

SpecAnalyzer == InitAnalyzer /\ [][NextAnalyzer]_vars

\* ------------------------------------------------------------ properties

\* C1: after every open, price update and close, current_balance plus the
\* value of the open positions equals starting_balance plus the realized and
\* the unrealized P&L.
ReconciliationInvariant ==
  GetTotalValue(portfolio) = portfolio.starting_balance + GetTotalPnl(portfolio)

\* C2: after a successful open (the seeding of the initial positions
\* included), in any order with price updates, the cash current_balance is
\* not negative.
CashNeverNegative ==
  portfolio.trade_history # << >> => portfolio.current_balance >= 0

\* C3: a buy executed for an address that has an open position is refused:
\* the position, the cash and the trade history are as before the call.
RepeatedOpenRefused ==
  [][(last'.op = "buy" /\ last'.address \in OpenAddrs(portfolio))
       => /\ portfolio'.positions = portfolio.positions
          /\ portfolio'.current_balance = portfolio.current_balance
          /\ portfolio'.trade_history = portfolio.trade_history]_vars

\* C4: after a close (close_position called directly, or by an executed
\* sell) that succeeds, the address has no open position and the trade
\* history is the one before the call plus one entry, a sell of that address.
CloseRemovesPosition ==
  [][(last'.op \in {"close", "sell"} /\ last'.ok)
       => LET before == portfolio.trade_history
              after == portfolio'.trade_history
          IN /\ last'.address \notin OpenAddrs(portfolio')
             /\ Len(after) = Len(before) + 1
             /\ SubSeq(after, 1, Len(before)) = before
             /\ after[Len(after)].action = "sell"
             /\ after[Len(after)].token_address = last'.address]_vars

\* A close has succeeded and its sell is the last entry of the history.
ClosedPosition ==
  /\ last.op \in {"close", "sell"}
  /\ last.ok
  /\ last.address \notin OpenAddrs(portfolio)
  /\ portfolio.trade_history[Len(portfolio.trade_history)].action = "sell"

\* C5: a close or an executed sell succeeds exactly when the address has an
\* open position at the call; a call that fails leaves the portfolio (cash,
\* realized P&L, win and loss counts, trade history) and the agent's
\* counters as they were.
CloseSucceedsIffOpen ==
  [][last'.op \in {"close", "sell"}
       => /\ last'.ok <=> last'.address \in OpenAddrs(portfolio)
          /\ ~last'.ok => portfolio' = portfolio /\ state' = state]_vars

\* A sell decision was executed after its position had been closed.
StaleSellFailed ==
  /\ last.op = "sell"
  /\ ~last.ok
  /\ \E i \in DOMAIN portfolio.trade_history :
       /\ portfolio.trade_history[i].action = "sell"
       /\ portfolio.trade_history[i].token_address = last.address

\* Positions beside the open ones: no quantity, no entry price, a fraction
\* of a percent of P&L.
SamplePositions ==
  {NewPosition(1, entry_price, current_price, quantity, 0) :
     entry_price \in {0, 100, 250}, current_price \in Prices,
     quantity \in {0, 1, 650}}

\* C6: update_price is idempotent: on every position, a second
\* update_price(p) leaves current_price, position_value_usd, pnl_usd and
\* pnl_percent as the first left them.
UpdatePriceIdempotent ==
  \A p \in Prices :
    \A pos \in {portfolio.positions[a] : a \in OpenAddrs(portfolio)}
                 \cup SamplePositions :
      UpdatePrice(UpdatePrice(pos, p), p) = UpdatePrice(pos, p)

\* An open position whose price was updated away from its entry price.
RepricedPosition ==
  \E a \in OpenAddrs(portfolio) :
    /\ portfolio.positions[a].current_price # portfolio.positions[a].entry_price
    /\ portfolio.positions[a].pnl_usd # 0

\* The prices, strategies, trends and clock readings of an exit evaluation.
ExitPrices == Prices \cup {110}
Strategies == {"scalping", "swing", "position"}
ExitAnalyses ==
  { Analysis("neutral", "avoid", 65, 80, 10, 1),
    Analysis("bearish", "avoid", 65, 80, 10, 1),
    Analysis("strong_bearish", "avoid", 65, 80, 10, 1) }
HoursLater == {0, 5}

\* C7: the exit rules apply in the order stop loss, take profit, trend
\* reversal, scalping time limit, and the first that matches decides; at
\* pnl_percent <= -15 the decision is the stop-loss sell whatever the trend,
\* the strategy and the holding time; every sell decision has confidence 90.
ExitRulesInOrder ==
  /\ \A a \in OpenAddrs(portfolio), p \in ExitPrices, strategy \in Strategies,
        analysis \in ExitAnalyses, later \in HoursLater :
       LET st == [state EXCEPT !.current_strategy_preference = strategy]
           token == [address |-> a, price_usd |-> p]
           position == UpdatePrice(portfolio.positions[a], p)
           decision == ExistingPositionDecision(portfolio, st, token, analysis,
                                                now + later)
           stop_loss == position.pnl_percent <= -15
           take_profit == position.pnl_percent >= TakeProfitTarget(strategy)
           reversal == /\ analysis.overall_trend \in {"bearish", "strong_bearish"}
                       /\ position.pnl_percent > 10
           time_limit == /\ strategy = "scalping"
                         /\ (now + later) - position.entry_time > 4
                         /\ position.pnl_percent > 5
           Sells(reason) == /\ decision.action = "sell"
                            /\ decision.reason = reason
                            /\ decision.confidence = 90
       IN /\ stop_loss => Sells("stop_loss")
          /\ ~stop_loss /\ take_profit => Sells("take_profit")
          /\ ~stop_loss /\ ~take_profit /\ reversal => Sells("trend_reversal")
          /\ ~stop_loss /\ ~take_profit /\ ~reversal /\ time_limit
               => Sells("scalping_time_limit")
          /\ ~stop_loss /\ ~take_profit /\ ~reversal /\ ~time_limit
               => decision = NoDecision
  /\ \A i \in DOMAIN decisions :
       decisions[i].action = "sell" => decisions[i].confidence = 90

\* The agent returned a stop-loss sell for a position 15 % or more down.
StopLossSellPending ==
  \E i \in DOMAIN decisions :
    /\ decisions[i].action = "sell"
    /\ decisions[i].reason = "stop_loss"
    /\ decisions[i].address \in OpenAddrs(portfolio)
    /\ portfolio.positions[decisions[i].address].pnl_percent <= -15

\* C8: a position bought under a strategy is sold for take profit as soon as
\* its pnl_percent reaches the target of that strategy (25 for scalping),
\* the trend being neutral.
TakeProfitAtTradedTarget ==
  \A a \in OpenAddrs(portfolio), p \in Prices :
    LET token == [address |-> a, price_usd |-> p]
        position == UpdatePrice(portfolio.positions[a], p)
        decision == ExistingPositionDecision(
                      portfolio, state, token,
                      Analysis("neutral", "avoid", 65, 80, 10, 1), now)
    IN (/\ traded_strategy[a] # "none"
        /\ position.pnl_percent >= TakeProfitTarget(traded_strategy[a]))
         => decision.action = "sell" /\ decision.reason = "take_profit"

\* The analyses around the thresholds of the buy rule.
EntryAnalyses ==
  {Analysis(trend, timing, confidence, score, 10, 1) :
     trend \in {"bullish", "bearish"},
     timing \in {"immediate", "wait_dip", "avoid"},
     confidence \in {64, 65}, score \in {79, 80}}

\* C9: for a token with no open position analyze_token_opportunity returns
\* a buy exactly when confidence_level >= 65, entry_timing = immediate and
\* overall_score >= 80, and nothing when confidence_level < 65 or the timing
\* is avoid; for a token with an open position it never returns a buy.
BuyIffThresholds ==
  \A analysis \in EntryAnalyses :
    /\ \A token \in NewTokens :
         token.address \notin OpenAddrs(portfolio) =>
           LET decision == TokenOpportunityDecision(portfolio, state, token,
                                                    analysis, now)
           IN /\ decision.action = "buy"
                   <=> /\ analysis.confidence_level >= 65
                       /\ analysis.entry_timing = "immediate"
                       /\ analysis.overall_score >= 80
              /\ (analysis.confidence_level < 65
                    \/ analysis.entry_timing = "avoid")
                   => decision = NoDecision
    /\ \A token \in Tokens :
         token.address \in OpenAddrs(portfolio) =>
           TokenOpportunityDecision(portfolio, state, token,
                                    analysis, now).action # "buy"

\* The agent returned a buy for a token that has no open position.
BuyPending ==
  \E i \in DOMAIN decisions :
    /\ decisions[i].action = "buy"
    /\ decisions[i].confidence >= 65
    /\ decisions[i].address \notin OpenAddrs(portfolio)

\* C10: however the four loops interleave, there are never more than 5 open
\* positions, and a buy is executed only with fewer than 5 positions open
\* and more than 50 USD of available capital at the moment it is added.
PositionsWithinMax ==
  /\ [](Cardinality(OpenAddrs(portfolio)) <= 5)
  /\ [][Len(portfolio'.trade_history) > Len(portfolio.trade_history)
          => /\ Cardinality(OpenAddrs(portfolio)) < 5
             /\ GetAvailableCapital(portfolio) > 50 * USD]_vars

\* The market-scan loop bought the fifth position after a cycle of the
\* position-check loop ran between its trades.
FifthPositionBought ==
  /\ Cardinality(OpenAddrs(portfolio)) = 5
  /\ last.op = "buy"
  /\ loops.checks > 0

\* C11: a buy executed when the position-count or available-capital test
\* fails, or when its cost exceeds current_balance, returns failure and
\* leaves the cash, the positions, the trade history and the agent's
\* counters as they were; any other buy succeeds.
StaleBuySkipped ==
  [][last'.op = "buy"
       => \E i \in DOMAIN decisions :
            /\ decisions[i].address = last'.address
            /\ ~last'.ok
                 <=> \/ Cardinality(OpenAddrs(portfolio)) >= 5
                     \/ GetAvailableCapital(portfolio) <= 50 * USD
                     \/ decisions[i].price_usd * decisions[i].suggested_amount
                          > portfolio.current_balance
            /\ ~last'.ok => portfolio' = portfolio /\ state' = state]_vars

\* A buy was executed with 5 positions open, two of them bought by the
\* agent, and failed.
StaleBuyFailed ==
  /\ last.op = "buy"
  /\ ~last.ok
  /\ Cardinality(OpenAddrs(portfolio)) = 5
  /\ state.total_trades = 2

\* The confidences and token prices of a sizing.
SizingConfidences == {0, 25, 50, 65, 75, 100}
SizingPrices == {1, 100, 250}

\* C12: for every confidence in 0..100 and every price > 0 the value
\* (quantity x price) returned by calculate_position_size is
\* available capital x (0.10 + 0.10 x clamp((confidence - 50) / 50, 0, 1)),
\* so never under 10 % and never over 20 % of the available capital (to
\* the lot the quantity is rounded down to).
PositionSizeWithinFractions ==
  \A confidence \in SizingConfidences, token_price \in SizingPrices :
    LET available == GetAvailableCapital(portfolio)
        value == token_price
                   * CalculatePositionSize(portfolio, token_price, confidence)
        clamped == IF confidence < 50 THEN 0 ELSE confidence - 50
        expected == (available * (10 + (10 * clamped) \div 50)) \div 100
    IN /\ value <= expected
       /\ value > expected - token_price
       /\ 10 * (value + token_price) >= available
       /\ 5 * value <= available

\* C13: after update_all_prices(price_map), complete or partial,
\* total_unrealized_pnl is the sum of pnl_usd over all the open positions,
\* those the map does not name counted at their last-known price.
UnrealizedPnlSumsOpenPositions ==
  last.op = "update_all_prices"
    => portfolio.total_unrealized_pnl
         = SumOver([a \in Addr |-> IF a \in OpenAddrs(portfolio)
                                   THEN portfolio.positions[a].pnl_usd ELSE 0],
                   OpenAddrs(portfolio))

\* C14: after stop() no loop starts a cycle; the market scan may finish the
\* batch in flight; each loop ends when its sleep returns, and run()
\* completes.
StopEndsLoops ==
  /\ [][~loops.is_running
          => /\ loops'.scans = loops.scans
             /\ loops'.checks = loops.checks
             /\ last'.op \notin {"deep_analysis", "status_report"}
             /\ ~loops'.is_running]_vars
  /\ [](loops.run = "done"
         => \A loop \in LoopNames : loops[loop] = "done")
  /\ ~loops.is_running ~> loops.run = "done"

\* run() completed after stop(); before, a market scan had bought the
\* fourth and the fifth position and a position check had run.
StoppedInFlight ==
  /\ loops.run = "done"
  /\ ~loops.is_running
  /\ loops.scans > 0
  /\ loops.checks > 0
  /\ Cardinality(OpenAddrs(portfolio)) = 5

\* C15: an exception raised in a cycle of a polling loop is caught at the
\* loop boundary: the loop goes to its sleep and can start another cycle, the
\* other loops and run() are where they were, and no loop ends while the
\* trader is running.
BadCycleKeepsLoops ==
  /\ [][(last'.op \in LoopNames /\ ~last'.ok)
          => /\ loops'[last'.op] = "sleep"
             /\ \A loop \in LoopNames \ {last'.op} :
                  loops'[loop] = loops[loop]
             /\ loops'.is_running = loops.is_running
             /\ loops'.run = loops.run]_vars
  /\ [](loops.is_running
         => /\ loops.run = "gather"
            /\ \A loop \in LoopNames : loops[loop] # "done")

\* A position check raised after it had repriced two positions, and the
\* trader runs on with its four loops.
CycleRaised ==
  /\ last = [op |-> "position_check", address |-> 0, ok |-> FALSE]
  /\ loops.is_running
  /\ loops.position_check = "sleep"
  /\ portfolio.positions[2].current_price # portfolio.positions[2].entry_price

\* C16: every market-data query answers a failed request (the request
\* raises, the status is not 200) or a malformed payload with an empty
\* result, and raises nothing.
QueriesNeverRaise ==
  last.op \in Queries
    => /\ ~last.result.raised
       /\ (last.response.outcome = "raises" \/ last.response.status # 200
             \/ last.response.body.kind \in {"null", "not_json"}
             \/ last.response.body.value = "null")
            => last.result.tokens = 0

\* C17: for every token snapshot, zero and negative values included, the
\* opportunity score is the sum of the four capped sub-scores (volume 0..30,
\* momentum 0..20, liquidity 0..20, market cap 0..30) and lies in 0..100.
OpportunityScoreWithinBounds ==
  last.op = "calculate_opportunity"
    => /\ ~last.result.raised
       /\ last.result.score
            = VolumeScore(last.token) + MomentumScore(last.token)
                + LiquidityScore(last.token) + MarketCapScore(last.token)
       /\ VolumeScore(last.token) \in 0..30
       /\ MomentumScore(last.token) \in 0..20
       /\ LiquidityScore(last.token) \in 0..20
       /\ MarketCapScore(last.token) \in 0..30
       /\ last.result.score \in 0..100

\* C18: 0 <= risk_reward_ratio <= 3; the ratio is 1 when no timeframe has a
\* nonzero support or none has a nonzero resistance, 3 when the price equals
\* the average support, and otherwise
\* |avg_resistance - price| / |price - avg_support| capped at 3.
RiskRewardClamped ==
  last.op = "calculate_risk_reward"
    => LET r == last.result
           tfs == last.timeframes
           price == last.price_usd
           S == {tf \in Timeframes : tfs[tf].support_level # 0}
           R == {tf \in Timeframes : tfs[tf].resistance_level # 0}
           Support == [tf \in Timeframes |-> tfs[tf].support_level]
           Resistance == [tf \in Timeframes |-> tfs[tf].resistance_level]
           \* |price - avg_support| * |S| and |avg_resistance - price| * |R|
           loss == Abs(price * Cardinality(S) - SumOver(Support, S))
           gain == Abs(SumOver(Resistance, R) - price * Cardinality(R))
           num == gain * Cardinality(S)
           den == loss * Cardinality(R)
       IN /\ r.den > 0 /\ 0 <= r.num /\ r.num <= 3 * r.den
          /\ IF S = {} \/ R = {} THEN r.num = r.den
             ELSE IF loss = 0 THEN r.num = 3 * r.den
             ELSE IF num <= 3 * den THEN r.num * den = num * r.den
             ELSE r.num = 3 * r.den

\* calculate_risk_reward capped the ratio 7 / 1 of a price of 5 between a
\* support of 4 and a resistance of 12.
RiskRewardCapped ==
  /\ last.op = "calculate_risk_reward"
  /\ last.result = Ratio(3, 1)
  /\ last.price_usd = 5
  /\ \A tf \in Timeframes :
       /\ last.timeframes[tf].support_level = 4
       /\ last.timeframes[tf].resistance_level = 12

\* C19: a series of at least 2 volumes whose second half has 2 times the
\* mean of its first half is increasing, 0.5 times the mean decreasing, the
\* same mean stable.
VolumeTrendByHalves ==
  (last.op = "calculate_volume_trend" /\ Len(last.volumes) >= 2)
    => LET half == Len(last.volumes) \div 2
           rest == Len(last.volumes) - half
           \* the means, both multiplied by half * rest
           first == SumSeq(SubSeq(last.volumes, 1, half)) * rest
           second ==
             SumSeq(SubSeq(last.volumes, half + 1, Len(last.volumes))) * half
       IN /\ second = 2 * first => last.result = "increasing"
          /\ 2 * second = first => last.result = "decreasing"
          /\ second = first => last.result = "stable"

\* C20: every token find_dust_like_tokens returns is one of the candidates
\* and has market_cap in 1M..50M, volume / (market_cap + 1) in 0.5..3.0 and
\* liquidity >= 100K; every token find_priceless_like_tokens returns has
\* market_cap in 500K..20M, the ratio in 1.0..5.0 and liquidity >= 50K.  A
\* candidate failing a gate is in no output, whatever its score.
GatesAreExclusionary ==
  /\ last.op = "find_dust_like_tokens"
       => \A i \in DOMAIN last.result :
            LET token == last.result[i].token
            IN /\ token \in SeqRange(last.candidates)
               /\ token.market_cap \in 1000000..50000000
               /\ 2 * token.volume_24h >= token.market_cap + 1
               /\ token.volume_24h <= 3 * (token.market_cap + 1)
               /\ token.liquidity_usd >= 100000
  /\ last.op = "find_priceless_like_tokens"
       => \A i \in DOMAIN last.result :
            LET token == last.result[i].token
            IN /\ token \in SeqRange(last.candidates)
               /\ token.market_cap \in 500000..20000000
               /\ token.volume_24h >= token.market_cap + 1
               /\ token.volume_24h <= 5 * (token.market_cap + 1)
               /\ token.liquidity_usd >= 50000

\* find_dust_like_tokens kept one of two candidates and dropped the one
\* with the higher opportunity score.
HigherScoreDropped ==
  /\ last.op = "find_dust_like_tokens"
  /\ Len(last.candidates) = 2
  /\ Len(last.result) = 1
  /\ \E i \in DOMAIN last.candidates :
       /\ last.candidates[i] # last.result[1].token
       /\ CalculateOpportunity(last.candidates[i]).score
            > last.result[1].similarity_score

\* C21: calculate_entry_timing answers wait_dip when the timeframes lack
\* the 1h and the 4h entry, whatever the overall trend, the trends that are
\* not bullish included.
EntryTimingDefaultsToWaitDip ==
  (/\ last.op \in {"calculate_entry_timing", "analyze_token"}
   /\ "1h" \notin DOMAIN last.timeframes
   /\ "4h" \notin DOMAIN last.timeframes)
    => last.result = "wait_dip"

\* calculate_entry_timing answered wait_dip for a bearish trend and
\* timeframes that have neither the 1h nor the 4h entry.
WaitDipWithoutShortTerm ==
  /\ last.op = "calculate_entry_timing"
  /\ last.overall_trend = "bearish"
  /\ DOMAIN last.timeframes = {"12h", "24h", "3d"}
  /\ last.result = "wait_dip"

\* C22: the trade history is append-only: every operation leaves the
\* entries it found unchanged and in order; an executed buy appends one buy
\* entry, a close that succeeds one sell entry, and a price update, a
\* refused buy and a close that fails append nothing.
TradeHistoryAppendOnly ==
  [][LET before == portfolio.trade_history
         after == portfolio'.trade_history
         opened == last'.op = "buy" /\ last'.ok
         closed == last'.op \in {"close", "sell"} /\ last'.ok
     IN /\ Len(after) >= Len(before)
        /\ SubSeq(after, 1, Len(before)) = before
        /\ opened => /\ Len(after) = Len(before) + 1
                      /\ after[Len(after)].action = "buy"
        /\ closed => /\ Len(after) = Len(before) + 1
                      /\ after[Len(after)].action = "sell"
        /\ ~opened /\ ~closed => after = before]_vars

\* A close failed on a history of a buy and a sell, which it left alone.
FailedCloseKeptHistory ==
  /\ last.op = "close"
  /\ ~last.ok
  /\ Len(portfolio.trade_history) = 2
  /\ portfolio.trade_history[1].action = "buy"
  /\ portfolio.trade_history[2].action = "sell"

\* C23: every open position has position_value_usd = quantity x
\* current_price and pnl_usd = position_value_usd - quantity x entry_price,
\* right after the buy that opened it as well.
DerivedFieldsConsistent ==
  \A a \in OpenAddrs(portfolio) :
    LET position == portfolio.positions[a]
    IN /\ position.position_value_usd
            = position.quantity * position.current_price
       /\ position.pnl_usd
            = position.position_value_usd
                - position.quantity * position.entry_price

\* C24: a price update touches nothing but the positions' own price
\* fields: update_price leaves quantity, entry_price and entry_time of the
\* position as they were, and update_all_prices leaves current_balance,
\* total_realized_pnl, win_count, loss_count, the trade history, the set of
\* open addresses and the quantity, entry_price and entry_time of every
\* position as they were.
PriceUpdateFrame ==
  LET Kept(before, after) ==
        /\ after.token_address = before.token_address
        /\ after.quantity = before.quantity
        /\ after.entry_price = before.entry_price
        /\ after.entry_time = before.entry_time
  IN /\ \A a \in OpenAddrs(portfolio), new_price \in Prices :
          Kept(portfolio.positions[a],
               UpdatePrice(portfolio.positions[a], new_price))
     /\ \A price_updates \in PriceMaps({1, 2}) :
          LET after == UpdateAllPrices(portfolio, price_updates)
          IN /\ after.current_balance = portfolio.current_balance
             /\ after.total_realized_pnl = portfolio.total_realized_pnl
             /\ after.win_count = portfolio.win_count
             /\ after.loss_count = portfolio.loss_count
             /\ after.trade_history = portfolio.trade_history
             /\ OpenAddrs(after) = OpenAddrs(portfolio)
             /\ \A a \in OpenAddrs(portfolio) :
                  Kept(portfolio.positions[a], after.positions[a])

\* A position bought after a close that realized a profit was repriced: the
\* counters and the history the update has to leave alone are not empty.
RepricedAfterRealizedProfit ==
  /\ portfolio.win_count > 0
  /\ portfolio.total_realized_pnl > 0
  /\ Len(portfolio.trade_history) = 3
  /\ \E a \in OpenAddrs(portfolio) :
       /\ portfolio.positions[a].current_price = 84
       /\ portfolio.positions[a].pnl_usd < 0

\* C25: a closed position does not come back: a close that succeeds leaves
\* the address without a position, an address gets a position only by an
\* executed buy, and that position has the price and the amount of the buy
\* as entry_price and quantity, the time of the buy as entry_time and no
\* P&L; so an open position is never older than a sell of its address.
ClosedNeverReturns ==
  /\ [][/\ (last'.op \in {"close", "sell"} /\ last'.ok)
             => last'.address \notin OpenAddrs(portfolio')
         /\ \A a \in OpenAddrs(portfolio') \ OpenAddrs(portfolio) :
              /\ last' = [op |-> "buy", address |-> a, ok |-> TRUE]
              /\ \E i \in DOMAIN decisions :
                   /\ decisions[i].action = "buy"
                   /\ decisions[i].address = a
                   /\ portfolio'.positions[a]
                        = NewPosition(a, decisions[i].price_usd,
                                      decisions[i].price_usd,
                                      decisions[i].suggested_amount, now)]_vars
  /\ [](\A a \in OpenAddrs(portfolio), i \in DOMAIN portfolio.trade_history :
          (/\ portfolio.trade_history[i].action = "sell"
           /\ portfolio.trade_history[i].token_address = a)
            => portfolio.positions[a].entry_time
                 > portfolio.trade_history[i].timestamp)

\* An address was bought again after its position had been closed at a
\* profit: the new position has the time of the second buy and no P&L.
BoughtAgainAfterClose ==
  /\ last = [op |-> "buy", address |-> 1, ok |-> TRUE]
  /\ Len(portfolio.trade_history) = 3
  /\ portfolio.trade_history[2].action = "sell"
  /\ portfolio.total_realized_pnl > 0
  /\ portfolio.positions[1].entry_time = portfolio.trade_history[3].timestamp
  /\ portfolio.positions[1].entry_time > portfolio.trade_history[2].timestamp
  /\ portfolio.positions[1].pnl_usd = 0

\* The number of entries of the trade history with the action.
TradesOf(pf, action) ==
  Cardinality({i \in DOMAIN pf.trade_history :
                 pf.trade_history[i].action = action})

\* C26: the number of buy entries of the trade history minus the number of
\* sell entries is the number of open positions.
BuysMinusSellsAreOpen ==
  TradesOf(portfolio, "buy") - TradesOf(portfolio, "sell")
    = Cardinality(OpenAddrs(portfolio))

\* C27: a buy that is executed costs (entry_price x quantity) no more
\* than the available capital at that moment, the total value less the
\* reserve of 500 USD, floored at 0.
BuyWithinAvailableCapital ==
  [][(last'.op = "buy" /\ last'.ok)
       => LET cost == portfolio.current_balance - portfolio'.current_balance
          IN cost <= GetAvailableCapital(portfolio)]_vars

\* C28: a cycle of the position-check loop closes every open position whose
\* pnl_percent after the price update of the cycle is at or below the stop
\* loss of -15 %: none is left open at the end of the cycle.
StopLossClosedInCycle ==
  [][loops.checks' = loops.checks + 1
       => \A a \in OpenAddrs(portfolio') :
            portfolio'.positions[a].pnl_percent > -StopLossPct]_vars

\* C29: current_strategy_preference is swing in every state, the strategy
\* of an executed buy not being kept; so the exit evaluation of every open
\* position, at any price, trend and holding time, sells for take profit
\* exactly from +50 %, names the swing strategy and never gives the scalping
\* time limit as its reason.
StrategyPreferenceStaysSwing ==
  /\ state.current_strategy_preference = "swing"
  /\ \A a \in OpenAddrs(portfolio), p \in ExitPrices \cup {150},
        analysis \in ExitAnalyses, later \in HoursLater :
       LET token == [address |-> a, price_usd |-> p]
           position == UpdatePrice(portfolio.positions[a], p)
           decision == ExistingPositionDecision(portfolio, state, token,
                                                analysis, now + later)
       IN /\ decision # NoDecision
               => /\ decision.reason # "scalping_time_limit"
                  /\ decision.strategy = "swing"
          /\ (decision # NoDecision /\ decision.reason = "take_profit")
               <=> position.pnl_percent >= 50
  /\ \A i \in DOMAIN decisions :
       decisions[i].action = "sell"
         => /\ decisions[i].reason # "scalping_time_limit"
            /\ decisions[i].strategy = "swing"

\* A position bought under the scalping strategy stands above the scalping
\* target of +25 % and below the swing target, and the sell pending for it
\* is the trend-reversal sell under the swing strategy.
ScalpingBuyJudgedAsSwing ==
  /\ 1 \in OpenAddrs(portfolio)
  /\ traded_strategy[1] = "scalping"
  /\ portfolio.positions[1].pnl_percent = 26
  /\ \E i \in DOMAIN decisions :
       /\ decisions[i].action = "sell"
       /\ decisions[i].address = 1
       /\ decisions[i].reason = "trend_reversal"
       /\ decisions[i].strategy = "swing"

\* C30: win_count + loss_count is the number of sell entries of the trade
\* history; a close that succeeds adds one to win_count when the final
\* pnl_usd is above zero and one to loss_count otherwise, a pnl_usd of zero
\* included, and no other operation changes either counter.
WinsAndLossesCountSells ==
  /\ [](portfolio.win_count + portfolio.loss_count
          = TradesOf(portfolio, "sell"))
  /\ [][IF last'.op \in {"sell", "close"} /\ last'.ok
        THEN LET sold == portfolio'.trade_history[Len(portfolio'.trade_history)]
                 final == UpdatePrice(portfolio.positions[last'.address],
                                      sold.price)
             IN /\ portfolio'.win_count
                     = portfolio.win_count + (IF final.pnl_usd > 0 THEN 1 ELSE 0)
                /\ portfolio'.loss_count
                     = portfolio.loss_count + (IF final.pnl_usd > 0 THEN 0 ELSE 1)
        ELSE /\ portfolio'.win_count = portfolio.win_count
             /\ portfolio'.loss_count = portfolio.loss_count]_vars

\* A position was closed at its entry price: the close is counted as a loss.
BreakEvenCountedAsLoss ==
  /\ last.op \in {"sell", "close"} /\ last.ok
  /\ portfolio.trade_history[Len(portfolio.trade_history)].action = "sell"
  /\ portfolio.trade_history[Len(portfolio.trade_history)].price = 100
  /\ portfolio.total_realized_pnl = 0
  /\ portfolio.win_count = 0
  /\ portfolio.loss_count = 1

====
